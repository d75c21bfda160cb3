----------------------------- MODULE MCTrfsMsgq -----------------------------
(***************************************************************************)
(* The trace queue on its own: producers send fresh messages 1..MaxSend,   *)
(* one consumer calls trfsMqRecv with any of Timeouts and takes the        *)
(* result, and the exit flag may be set and cleared at any moment.         *)
(***************************************************************************)
EXTENDS TrfsMsgq

CONSTANT MaxSend    \* bound on the number of sends

\* The writer passes -1; 0 and a positive timeout are the other two paths.
MCTimeouts == {-1, 0, 50}

VARIABLES
    nextMsg,        \* the last message handed to a producer
    received        \* what the consumer got, in order

vars == <<qVars, consumerVars, sendRet, nextMsg, received>>

Init ==
    /\ QInit
    /\ ConsumerInit
    /\ sendRet = [p \in Producers |-> [ret |-> NoRet, m |-> NoMsg]]
    /\ nextMsg = 0
    /\ received = <<>>

Send(p) ==
    /\ nextMsg < MaxSend
    /\ nextMsg' = nextMsg + 1
    /\ trfsMqSend(p, nextMsg + 1)
    /\ UNCHANGED received

Recv(t) ==
    /\ RecvCheck(t)
    /\ UNCHANGED <<nextMsg, received>>

Get ==
    /\ trfsMqGetMsg
    /\ UNCHANGED <<nextMsg, received>>

\* The caller looks at what trfsMqRecv returned.
Consume ==
    /\ cpc = "done"
    /\ received' = IF recvRet = MsgLen THEN Append(received, recvMsg) ELSE received
    /\ cpc' = "recv"
    /\ UNCHANGED <<qVars, recvRet, recvMsg, sendRet, nextMsg>>

Cancel ==
    /\ trfs_set_exit_flag
    /\ UNCHANGED <<nextMsg, received>>

Uncancel ==
    /\ trfs_clear_exit_flag
    /\ UNCHANGED <<nextMsg, received>>

Next ==
    \/ \E p \in Producers : Send(p)
    \/ \E t \in Timeouts : Recv(t)
    \/ Get
    \/ Consume
    \/ Cancel
    \/ Uncancel

Spec == Init /\ [][Next]_vars

(***************************************************************************)
(* The consumer is the writer kthread, which calls trfsMqRecv with -1:     *)
(* trfsMqPutMsg wakes the queue's waiters after every store, and a woken   *)
(* kthread is scheduled; the locked get and the caller's look at the       *)
(* result follow without blocking.  Producers, the other timeouts and the *)
(* exit flag are the environment's and get no fairness.                    *)
(***************************************************************************)
FairSpec ==
    /\ Spec
    /\ WF_vars(Recv(-1))
    /\ WF_vars(Get)
    /\ WF_vars(Consume)

-----------------------------------------------------------------------------
TypeOK ==
    /\ msg \in [0..MaxMsgs-1 -> 1..MaxSend \cup {NoMsg}]
    /\ readIndex \in 0..MaxMsgs-1
    /\ writeIndex \in 0..MaxMsgs-1
    /\ counter \in 0..MaxMsgs
    /\ exit_flag \in {0, 1}
    /\ cpc \in {"recv", "lock", "done"}
    /\ recvRet \in {MsgLen, Err, ExitWaitingQueue, FlushTimeout, NoRet}
    /\ sendRet \in [Producers -> [ret : {MsgLen, NoRet}, m : 1..MaxSend \cup {NoMsg}]]
    /\ received \in Seq(1..MaxSend)

(***************************************************************************)
(* The circular window: the occupied slots are exactly the counter slots   *)
(* from readIndex on, i.e. writeIndex = readIndex + counter (mod MaxMsgs), *)
(* after any mix of trfsMqPutMsg and trfsMqGetMsg.  (Spec 3 states it as   *)
(* counter = (writeIndex - readIndex) mod maxMsgs, which reads 0 for a    *)
(* full queue; this is the form that holds at counter = maxMsgs.)          *)
(***************************************************************************)
IndexCounterAgree ==
    /\ (writeIndex - readIndex - counter) % MaxMsgs = 0
    /\ counter \in 0..MaxMsgs

(***************************************************************************)
(* trfsMqRecv tests counter without q_lock, then takes the lock and calls  *)
(* trfsMqGetMsg, whose TRFS_ERR_MQ_EMPTY branch would make the receive     *)
(* return -1 with no message.  With one consumer, whatever producers do    *)
(* between the unlocked test and the lock, the queue is never empty at the *)
(* locked get, so that branch is dead.                                     *)
(***************************************************************************)
GetFindsMessage == cpc = "lock" => counter # 0

(***************************************************************************)
(* The queue implements the bounded FIFO channel of spec 4.2: its contents *)
(* read from readIndex are the channel's buffer, and what the consumer    *)
(* has taken (including a message trfsMqGetMsg has handed out and the      *)
(* caller not yet looked at) is the channel's delivered history.  No       *)
(* message is lost while queued, duplicated or reordered.                  *)
(***************************************************************************)
InFlight == IF cpc = "done" /\ recvRet = MsgLen THEN <<recvMsg>> ELSE <<>>

Chan == INSTANCE EventChannel
            WITH Cap <- MaxMsgs, Values <- 1..MaxSend,
                 buf <- QueueContents, delivered <- received \o InFlight

ChannelRefinement == Chan!Spec

(***************************************************************************)
(* A queued message reaches the writer.  trfsMqRecv tests exit_flag and    *)
(* counter without q_lock and sleeps in wait_event_interruptible until one *)
(* of them changes; if the wait or the unlocked tests could miss a store,  *)
(* a message could sit in the queue while the writer sleeps.  Nothing in   *)
(* the code sets the exit flag; if it is set, the receive returns          *)
(* TRFS_EXIT_WAITING_QUEUE instead, so the promise is made for behaviours *)
(* in which the flag ends up clear.                                        *)
(***************************************************************************)
Queued(v) == \E i \in 1..counter : QueueContents[i] = v

Received(v) == \E i \in 1..Len(received) : received[i] = v

QueuedIsReceived ==
    <>[](exit_flag = 0) => \A v \in 1..MaxSend : Queued(v) ~> Received(v)
=============================================================================
