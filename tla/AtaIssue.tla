------------------------------ MODULE AtaIssue ------------------------------
(***************************************************************************)
(* What the transfer queue of an ATA channel promises its drivers and its  *)
(* controller, without lists, contexts or locks: commands are submitted,   *)
(* each is issued at most once with a tag of its own, only together with   *)
(* commands it may share the channel with, and never while the channel is  *)
(* held, unless it is a recovery command.                                  *)
(***************************************************************************)
EXTENDS Integers

CONSTANTS
  Xfers,      \* the commands
  Recovery,   \* those that recover the channel from an error
  Together,   \* pairs of ordinary commands that may be issued together
  Tags        \* the tags the controller knows

VARIABLES
  pending,    \* submitted, not issued yet
  tag,        \* the tag of every issued command
  held        \* ordinary commands may not be issued

issueVars == <<pending, tag, held>>

Issued == DOMAIN tag
TagsInUse == {tag[x] : x \in Issued}

Init == pending = {} /\ tag = [x \in {} |-> 0] /\ held = FALSE

Submit(x) ==
  /\ x \notin pending \cup Issued
  /\ pending' = pending \cup {x}
  /\ UNCHANGED <<tag, held>>

MayIssue(x) ==
  x \notin Recovery =>
    /\ ~held
    /\ pending \cap Recovery = {}
    /\ \A y \in Issued : <<x, y>> \in Together

(* A command whose driver is not ready for it holds the channel as it is    *)
(* issued.                                                                  *)
Issue(x) ==
  /\ x \in pending /\ MayIssue(x)
  /\ pending' = pending \ {x}
  /\ \E t \in Tags \ TagsInUse :
       tag' = [y \in Issued \cup {x} |-> IF y = x THEN t ELSE tag[y]]
  /\ held' \in {held, TRUE}

Finish(x) ==
  /\ x \in Issued
  /\ tag' = [y \in Issued \ {x} |-> tag[y]]
  /\ UNCHANGED <<pending, held>>

Cancel(x) ==
  /\ x \in pending
  /\ pending' = pending \ {x}
  /\ UNCHANGED <<tag, held>>

Hold == held' = TRUE /\ UNCHANGED <<pending, tag>>
Release == held' = FALSE /\ UNCHANGED <<pending, tag>>

IssueNext ==
  \/ \E x \in Xfers : Submit(x) \/ Issue(x) \/ Finish(x) \/ Cancel(x)
  \/ Hold \/ Release

IssueSpec == Init /\ [][IssueNext]_issueVars
=============================================================================
