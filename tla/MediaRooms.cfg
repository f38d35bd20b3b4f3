SPECIFICATION Spec
CONSTANTS
    t1 = t1
    t2 = t2
    t3 = t3
    NoTask = NoTask
    Tasks = {t1, t2, t3}
    Messages = {"createRouterGroup", "destroyRouterGroup", "createWebRTCIngress", "createWebRTCEgress", "disconnectTransport", "transportClosed", "consumerPauseResume", "storePipeRelay", "connectPipeRelay", "connectWebRTC", "producerPauseResume", "producerClose", "restartIce", "audioProducerClosed", "egressRouterClosed"}
    Capacity = 1
    Rounds = 2
INVARIANTS NoCircularWait
SYMMETRY TaskSymmetry
CHECK_DEADLOCK FALSE
