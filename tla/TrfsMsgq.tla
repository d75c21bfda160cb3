------------------------------ MODULE TrfsMsgq ------------------------------
(***************************************************************************)
(* The trace message queue of src/trfs/trfs_msgq.c, with TRFS_MQ_ARRAY and *)
(* TRFS_MQ_CIRCULAR_Q defined (trfs_msgq.h): an array of MaxMsgs slots,    *)
(* a read and a write index and a counter.  Only the queue TRFS_LOG_QID is *)
(* ever addressed, so one queue is modelled.                               *)
(*                                                                         *)
(* trfsMqSend runs trfsMqPutMsg entirely under tlw.q_lock, so a send is   *)
(* one step.  trfsMqRecv reads exit_flag and counter WITHOUT the lock and *)
(* only then takes q_lock for trfsMqGetMsg: the consumer's call is two     *)
(* steps, "recv" (wait and checks) and "lock" (the locked get), and ends  *)
(* in "done" with its result in recvRet / recvMsg for the caller.          *)
(*                                                                         *)
(* A slot holds the pointer data_p; the message carries its own length,   *)
(* and pri is always 0 (TRFS_WRITE passes 0), so neither is a variable.   *)
(***************************************************************************)
EXTENDS Integers, Sequences

CONSTANTS
    MaxMsgs,     \* tx_q_attr.maxMsgs (TRFS_MAX_TX_Q_MSGS)
    Producers,   \* the threads that call trfsMqSend
    Timeouts,    \* timeOut arguments a caller of trfsMqRecv may pass
    NoMsg        \* a NULL data_p

ASSUME MaxMsgs \in Nat \ {0}
ASSUME Timeouts \subseteq Int

VARIABLES
    msg,         \* node->msg[i].data_p, i \in 0..MaxMsgs-1
    readIndex,   \* node->readIndex
    writeIndex,  \* node->writeIndex
    counter,     \* node->attr.counter
    exit_flag,   \* node->attr.exit_flag
    cpc,         \* where the consumer is in trfsMqRecv
    recvRet,     \* what trfsMqRecv returned to the consumer
    recvMsg,     \* *msg_p as set by trfsMqGetMsg
    sendRet      \* per producer: what its last trfsMqSend returned, and for which message

qVars == <<msg, readIndex, writeIndex, counter, exit_flag>>
consumerVars == <<cpc, recvRet, recvMsg>>

\* Return values, named after the C constants.
MsgLen == "MsgLen"                      \* trfsMqSend / trfsMqRecv: the length, >= 0
Err == "Err"                            \* -1
ExitWaitingQueue == "ExitWaitingQueue"  \* TRFS_EXIT_WAITING_QUEUE
FlushTimeout == "FlushTimeout"          \* TRFS_FLUSH_TIMEOUT
NoRet == "NoRet"

\* The queued messages, oldest first.
QueueContents == [i \in 1..counter |-> msg[(readIndex + i - 1) % MaxMsgs]]

(***************************************************************************)
(* State after trfs_create_log_q: trfsMqOpen zeroes counter and the slots; *)
(* the indices and exit_flag are those of the zeroed static array.        *)
(***************************************************************************)
QInit ==
    /\ msg = [i \in 0..MaxMsgs-1 |-> NoMsg]
    /\ readIndex = 0
    /\ writeIndex = 0
    /\ counter = 0
    /\ exit_flag = 0

ConsumerInit ==
    /\ cpc = "recv"
    /\ recvRet = NoRet
    /\ recvMsg = NoMsg

(***************************************************************************)
(* trfsMqSend(TRFS_LOG_QID, m, len, 0, -1) with m # NULL.  trfsMqPutMsg    *)
(* returns TRFS_ERR_MQ_FULL on a full queue, but trfsMqSend only tests for *)
(* -1, so the caller is told msgLen either way.                            *)
(***************************************************************************)
\* Mutants of trfsMqPutMsg: the write index not wrapped with
\* TRFS_MQ_CIRCULAR_Q; the index advanced before the store; the full test
\* dropped.
trfsMqPutMsg_noWrap(m) ==
    \/ /\ counter = MaxMsgs
       /\ UNCHANGED qVars
    \/ /\ counter # MaxMsgs
       /\ msg' = [msg EXCEPT ![writeIndex] = m]
       /\ writeIndex' = writeIndex + 1
       /\ counter' = counter + 1
       /\ UNCHANGED <<readIndex, exit_flag>>

trfsMqPutMsg_advanceFirst(m) ==
    \/ /\ counter = MaxMsgs
       /\ UNCHANGED qVars
    \/ /\ counter # MaxMsgs
       /\ msg' = [msg EXCEPT ![(writeIndex + 1) % MaxMsgs] = m]
       /\ writeIndex' = (writeIndex + 1) % MaxMsgs
       /\ counter' = counter + 1
       /\ UNCHANGED <<readIndex, exit_flag>>

trfsMqPutMsg_noFullCheck(m) ==
    \/ /\ counter = MaxMsgs
       /\ UNCHANGED qVars
    \/ /\ msg' = [msg EXCEPT ![writeIndex] = m]
       /\ writeIndex' = (writeIndex + 1) % MaxMsgs
       /\ counter' = counter + 1
       /\ UNCHANGED <<readIndex, exit_flag>>

trfsMqPutMsg(m) ==
    \/ /\ counter = MaxMsgs
       /\ UNCHANGED qVars
    \/ /\ counter # MaxMsgs
       /\ msg' = [msg EXCEPT ![writeIndex] = m]
       /\ writeIndex' = (writeIndex + 1) % MaxMsgs
       /\ counter' = counter + 1
       /\ UNCHANGED <<readIndex, exit_flag>>

trfsMqSend(p, m) ==
    /\ trfsMqPutMsg(m)
    /\ sendRet' = [sendRet EXCEPT ![p] = [ret |-> MsgLen, m |-> m]]
    /\ UNCHANGED <<cpc, recvRet, recvMsg>>

(***************************************************************************)
(* trfsMqRecv, up to taking q_lock.  timeOut = -1 sleeps until exit_flag   *)
(* or counter # 0; timeOut > 0 sleeps until counter # 0 or the timeout,    *)
(* which the model lets expire at any moment; any other timeOut does not   *)
(* sleep.  The exit flag is tested before the counter.                     *)
(***************************************************************************)
\* Mutant: the -1 wait drops the counter from its condition.
RecvCheck_waitExitOnly(t) ==
    /\ cpc = "recv"
    /\ t \in Timeouts
    /\ t = -1 => exit_flag = 1
    /\ \/ /\ exit_flag = 1
          /\ cpc' = "done"
          /\ recvRet' = ExitWaitingQueue
       \/ /\ exit_flag # 1
          /\ counter = 0
          /\ cpc' = "done"
          /\ recvRet' = FlushTimeout
       \/ /\ exit_flag # 1
          /\ counter # 0
          /\ cpc' = "lock"
          /\ UNCHANGED recvRet
    /\ UNCHANGED <<qVars, recvMsg, sendRet>>

\* Mutant: the counter == 0 return (TRFS_FLUSH_TIMEOUT) dropped, so the
\* consumer goes on to the locked get whenever the exit flag is clear.
RecvCheck_noEmptyTest(t) ==
    /\ cpc = "recv"
    /\ t \in Timeouts
    /\ t = -1 => (exit_flag = 1 \/ counter # 0)
    /\ \/ /\ exit_flag = 1
          /\ cpc' = "done"
          /\ recvRet' = ExitWaitingQueue
       \/ /\ exit_flag # 1
          /\ cpc' = "lock"
          /\ UNCHANGED recvRet
    /\ UNCHANGED <<qVars, recvMsg, sendRet>>

RecvCheck(t) ==
    /\ cpc = "recv"
    /\ t \in Timeouts
    /\ t = -1 => (exit_flag = 1 \/ counter # 0)
    /\ \/ /\ exit_flag = 1
          /\ cpc' = "done"
          /\ recvRet' = ExitWaitingQueue
       \/ /\ exit_flag # 1
          /\ counter = 0
          /\ cpc' = "done"
          /\ recvRet' = FlushTimeout
       \/ /\ exit_flag # 1
          /\ counter # 0
          /\ cpc' = "lock"
          /\ UNCHANGED recvRet
    /\ UNCHANGED <<qVars, recvMsg, sendRet>>

(***************************************************************************)
(* trfsMqRecv under q_lock: trfsMqGetMsg(node, msg_p, msgLen, 0).  Its    *)
(* counter == 0 test (TRFS_ERR_MQ_EMPTY) cannot succeed here: there is one *)
(* consumer, and between its unlocked test of counter and the lock only    *)
(* producers run, who never decrease counter.  The guard counter # 0      *)
(* stands for that test; the invariant GetFindsMessage checks it is never   *)
(* the guard that disables the step.                                       *)
(***************************************************************************)
\* Mutant: the read index not advanced after the get.
trfsMqGetMsg_noAdvance ==
    /\ cpc = "lock"
    /\ counter # 0
    /\ cpc' = "done"
    /\ recvMsg' = msg[readIndex]
    /\ recvRet' = MsgLen
    /\ counter' = counter - 1
    /\ UNCHANGED <<msg, readIndex, writeIndex, exit_flag, sendRet>>

trfsMqGetMsg ==
    /\ cpc = "lock"
    /\ counter # 0
    /\ cpc' = "done"
    /\ recvMsg' = msg[readIndex]
    /\ recvRet' = MsgLen
    /\ counter' = counter - 1
    /\ readIndex' = (readIndex + 1) % MaxMsgs
    /\ UNCHANGED <<msg, writeIndex, exit_flag, sendRet>>

(* trfs_set_exit_flag: set the flag and wake the waiters.                  *)
trfs_set_exit_flag ==
    /\ exit_flag' = 1
    /\ UNCHANGED <<msg, readIndex, writeIndex, counter, consumerVars, sendRet>>

(* trfs_clear_exit_flag.                                                   *)
trfs_clear_exit_flag ==
    /\ exit_flag' = 0
    /\ UNCHANGED <<msg, readIndex, writeIndex, counter, consumerVars, sendRet>>
=============================================================================
