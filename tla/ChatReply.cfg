CONSTANTS
    q1 = q1
    q2 = q2
    w1 = w1
    Reqs <- TwoReqs
    Blank <- SecondReq
    Workers <- OneWorker
    Early = Early
SPECIFICATION FairSpec
INVARIANTS TypeOK ClientsAgree JournalAgrees PushIsTheAnswer OneSender
PROPERTIES AnsweredOnce DeliveryIsFinal DeliveryConverges
CHECK_DEADLOCK FALSE
