SPECIFICATION Spec
CONSTANTS
    t1 = t1
    t2 = t2
    t3 = t3
    Tasks = {t1, t2}
    Messages = {"createRouterGroup", "createWebRTCIngress", "createWebRTCEgress", "connectWebRTC", "createMediaProducer", "createEventProducer", "createDataProducer", "consumeAudio", "consumeVideo", "consumeEvents", "consumeMovement", "consumerPauseResume", "producerPauseResume", "producerClose", "storePipeRelay", "createRelayProducer", "connectPipeRelay", "transportClosed", "audioProducerClosed", "egressRouterClosed"}
    NoTask = NoTask
    Capacity = 1
    Rounds = 1
INVARIANTS TypeOK
PROPERTIES HandlersReturn
CHECK_DEADLOCK FALSE
