SPECIFICATION Spec
CONSTANTS
    t1 = t1
    t2 = t2
    t3 = t3
    NoTask = NoTask
    Tasks = {t1, t2}
    Messages = {"createDataProducer", "disconnectTransport"}
    Capacity = 1
    Rounds = 1
PROPERTIES DataProducerSignals
CHECK_DEADLOCK FALSE
