----------------------------- MODULE MCComments -----------------------------
(***************************************************************************)
(* What comments and tests of the repository say and the code does not do, *)
(* of the parts of MCCodecs and of ResubscribeErr: what holds of the       *)
(* operators is looked at once; the machines run one after another, each   *)
(* until it has come to a state its comment excludes.                      *)
(***************************************************************************)
EXTENDS MCCodecs

CONSTANTS
  Attempts, LoopCallers, BackoffMax  \* of ResubscribeErr, see Resubscribe

VARIABLES
  lpc, cur, fpc, res, inner, waitTime, quick, lonce, lcall, dropped,  \* Resubscribe
  permuted  \* history: every round so far is one of Keccak-f

Loop == INSTANCE Resubscribe WITH Callers <- LoopCallers, upc <- lcall, once <- lonce

loopVars == <<lpc, cur, fpc, res, inner, waitTime, quick, lonce, lcall, dropped>>

-----------------------------------------------------------------------------
(* Of the machines: Unsubscribe releases what the subscription holds       *)
(* (event/subscription.go:21-22), notifications are dropped until the      *)
(* subscription is active (rpc/subscription.go:85-87), Stop stops reading  *)
(* new requests (rpc/server.go:114), keccakF1600 is the permutation.       *)
Released == Loop!ReleasedAfterUnsubscribe
Dropped == Srv!DroppedUntilActive
StopReads == Stp!StopReadsNoMore

(* Of the operators; a digest works for each of its sizes, and a short     *)
(* Write is only slower.                                                   *)
NegativeRefused == \A n \in -8..0 : Text!NegativeRefused(n)
PaddedLongEnough == \A x \in 0..8, len \in 0..4 : Math!PaddedLongEnough(x, len)
BaseKept == \A x \in 0..4, e \in 0..4 : Math!BaseKept(x, e)
SizeSupported == Hash!SizeSupported
UnalignedOnlySlower == Hash!UnalignedOnlySlower

(* Of tags: only what follows an optional field must be optional, there is *)
(* a tag tail, and nil is the empty value of what is pointed to.           *)
TwoFields == [1..2 -> [exported : {TRUE}, type : {Basic("uint8")}, tag : {<<>>, Opt}]]
OptionalsLast == \A fields \in TwoFields : Tags!OptionalsLast(fields)
TailAccepted == \A type \in FieldTypes : Tags!TailAccepted(Field(type, <<>>))
NilOfElement == \A type \in {Ptr(Basic("uint8")), Ptr(Aux)} : Tags!NilOfElement(Field(type, <<>>))

-----------------------------------------------------------------------------
CommentsInit ==
  /\ MCInit /\ part = "hash" /\ outputSize = 64
  /\ Loop!Init /\ permuted = TRUE

Others == <<part, subVars, cliVars, batVars, regVars, given, msgVars, hashVars>>

CommentsNext ==
  /\ UNCHANGED Others
  /\ \/ /\ Released /\ Loop!Next
        /\ UNCHANGED <<srvVars, stpVars, kecVars, permuted>>
     \/ /\ ~Released /\ Dropped /\ Srv!Next
        /\ UNCHANGED <<loopVars, stpVars, kecVars, permuted>>
     \/ /\ ~Dropped /\ StopReads /\ Stp!Next
        /\ UNCHANGED <<loopVars, srvVars, kecVars, permuted>>
     \/ /\ ~StopReads /\ permuted /\ Kec!Next /\ permuted' = Kec!KeccakRound
        /\ UNCHANGED <<loopVars, srvVars, stpVars>>

CommentsSpec ==
  CommentsInit /\ [][CommentsNext]_<<Others, loopVars, srvVars, stpVars, kecVars, permuted>>

(* One at least of the comments holds.  The last state of the behaviour    *)
(* that violates this contradicts every one of them.                       *)
SomeCommentHolds ==
  \/ Released \/ Dropped \/ StopReads \/ permuted
  \/ NegativeRefused \/ PaddedLongEnough \/ BaseKept \/ SizeSupported \/ UnalignedOnlySlower
  \/ OptionalsLast \/ TailAccepted \/ NilOfElement

=============================================================================
