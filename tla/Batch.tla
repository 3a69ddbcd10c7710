------------------------------- MODULE Batch -------------------------------
(***************************************************************************)
(* batchCallBuffer (rpc/handler.go): one goroutine works through the calls *)
(* of a batch and a timer may cut it short; the mutex is taken anew for    *)
(* each step, so that the timeout may come while a call is being run.  The *)
(* loop that uses the buffer is not in this commit: it takes the next      *)
(* call, runs it, pushes its answer, and writes when there is none left.   *)
(***************************************************************************)
EXTENDS Integers, Sequences, SequencesExt

CONSTANTS
  BatchMsgs,      \* the messages of a batch
  Notifications   \* those that expect no answer

VARIABLES
  calls,    \* b.calls
  answers,  \* b.resp: messages and how they were answered
  wrote,    \* b.wrote
  written,  \* history: what has been written to the connection
  worker,   \* the goroutine: between calls, running one, or done
  batch     \* history: the batch as it came

batchVars == <<calls, answers, wrote, written, worker, batch>>

Init ==
  /\ batch \in SetToAllKPermutations(BatchMsgs)
  /\ calls = batch
  /\ answers = <<>> /\ wrote = FALSE /\ written = <<>>
  /\ worker = "next"

doWrite(resp) ==
  /\ wrote' = TRUE
  /\ written' = IF wrote \/ resp = <<>> THEN written ELSE Append(written, resp)

(* The next call stays in the buffer while it is run.                      *)
nextCall ==
  /\ worker = "next" /\ calls # <<>>
  /\ worker' = "running"
  /\ UNCHANGED <<calls, answers, wrote, written, batch>>

pushResponse ==
  /\ worker = "running"
  /\ answers' = IF Head(calls) \in Notifications THEN answers ELSE Append(answers, <<Head(calls), "result">>)
  /\ calls' = Tail(calls)
  /\ worker' = "next"
  /\ UNCHANGED <<wrote, written, batch>>

(* The loop of timeout: the messages of q that expect an answer.           *)
Answerable(q) ==
  LET upto[i \in 0..Len(q)] ==
        IF i = 0 THEN <<>>
        ELSE IF q[i] \in Notifications THEN upto[i - 1]
        ELSE Append(upto[i - 1], q[i])
  IN upto[Len(q)]

(* Mutant: the call that is being run is not answered.                     *)
TimeoutOthers ==
  /\ ~wrote
  /\ LET late == Answerable(IF worker = "running" THEN Tail(calls) ELSE calls)
         resp == answers \o [i \in DOMAIN late |-> <<late[i], "timeout">>]
     IN answers' = resp /\ doWrite(resp)
  /\ UNCHANGED <<calls, worker, batch>>

(* The timer: all calls that are left are answered for.  It fires once,    *)
(* and after the last write there is nothing left for it to do.            *)
timeout ==
  /\ ~wrote
  /\ LET late == Answerable(calls)
         resp == answers \o [i \in DOMAIN late |-> <<late[i], "timeout">>]
     IN answers' = resp /\ doWrite(resp)
  /\ UNCHANGED <<calls, worker, batch>>

Write ==
  /\ worker = "next" /\ calls = <<>>
  /\ doWrite(answers)
  /\ worker' = "done"
  /\ UNCHANGED <<calls, answers, batch>>

Next == nextCall \/ pushResponse \/ timeout \/ Write

Spec == Init /\ [][Next]_batchVars

-----------------------------------------------------------------------------
TypeOK ==
  /\ calls \in Seq(BatchMsgs) /\ wrote \in BOOLEAN
  /\ answers \in Seq(BatchMsgs \X {"result", "timeout"})
  /\ written \in Seq(Seq(BatchMsgs \X {"result", "timeout"}))
  /\ worker \in {"next", "running", "done"}

(* The batch is answered in one message, wherever the timeout cuts in: one *)
(* answer for each call, in their order, and none for a notification; a    *)
(* call that was cut off is not answered a second time when it returns.    *)
AnsweredOnce ==
  /\ Len(written) <= 1
  /\ wrote =>
       /\ written = <<>> => Answerable(batch) = <<>>
       /\ written # <<>> => [i \in DOMAIN written[1] |-> written[1][i][1]] = Answerable(batch)

=============================================================================
