-------------------------- MODULE MCSubscriptions --------------------------
(***************************************************************************)
(* event/subscription.go, one part at a time.  For TLC: a scope with two   *)
(* subscriptions and two goroutines that may each unsubscribe either of    *)
(* them, through its wrapper or not, or close the scope, any number of     *)
(* times; and the loop of ResubscribeErr with two attempts, so that one    *)
(* may be around when the next begins, three callers of Unsubscribe and a  *)
(* backoff that is capped after four doublings.                            *)
(***************************************************************************)
EXTENDS Scope

CONSTANTS
  Attempts, LoopCallers, BackoffMax  \* of ResubscribeErr, see Resubscribe

ASSUME BackoffAssumption == BackoffMax \in Nat

VARIABLES
  part,
  lpc, cur, fpc, res, inner, waitTime, quick, once, lcall, dropped

Loop == INSTANCE Resubscribe WITH Callers <- LoopCallers, upc <- lcall

loopVars == <<lpc, cur, fpc, res, inner, waitTime, quick, once, lcall, dropped>>
allVars == <<part, vars, loopVars>>

MCInit ==
  /\ Init /\ Loop!Init
  /\ part \in {"scope", "loop"}
  /\ part = "scope" => cur = CHOOSE k \in Attempts : TRUE

MCNext ==
  \/ part = "scope" /\ Next /\ UNCHANGED <<part, loopVars>>
  \/ part = "loop" /\ Loop!Next /\ UNCHANGED <<part, vars>>

(* The fair actions of a part that is not run are disabled where it        *)
(* starts, but for the loop's.                                             *)
MCSpec ==
  /\ MCInit /\ [][MCNext]_allVars
  /\ Fairness
  /\ Loop!OthersFair /\ WF_loopVars(part = "loop" /\ Loop!LoopStep)

-----------------------------------------------------------------------------
(* ResubscribeErr: its variables have their types; one inner subscription  *)
(* at a time, none left but what is thrown away, no loop and no fn running *)
(* once Unsubscribe has returned, a backoff that doubles up to its cap.    *)
ResubscribeSound ==
  Loop!TypeOK /\ Loop!OneAtATime /\ Loop!QuietAfterUnsubscribe /\ Loop!BackoffGrows

(* Calls of a scope, of its wrappers and of funSub.Unsubscribe return; so  *)
(* does Unsubscribe of a Resubscribe whose loop has noticed it, and after  *)
(* a failure the loop tries again or has been told to end.                 *)
EverybodyReturns == CallsReturn /\ Loop!NoticedReturns /\ Loop!TriesAgain

=============================================================================
