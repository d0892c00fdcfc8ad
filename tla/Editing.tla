------------------------------- MODULE Editing -------------------------------
(***************************************************************************)
(* One routine that is open in several editors (the page RoutineEditor.tsx *)
(* in a browser tab) while it is also changed elsewhere: from the list of  *)
(* routines, or through the API without a version.  The routine service    *)
(* handles each request in one transaction; the answer reaches the editor  *)
(* later, or not at all.                                                   *)
(***************************************************************************)
EXTENDS Routine

CONSTANTS
  Editors,      \* the browser tabs the routine is open in
  Kind,         \* how the routine is triggered: "manual" or "webhook"
  MaxVersion    \* bound on the version: how often the routine is changed

ASSUME KindAssumption == Kind \in {"manual", "webhook"}

VARIABLES
  row,       \* the routine
  editor,    \* the state of the page in each tab
  foreign    \* history: has someone else changed the routine since the tab loaded it?
vars == <<row, editor, foreign>>

(* base and version: what the page loaded.  active: the draft's switch,    *)
(* which is sent after the definition.  reply: a version on its way back;  *)
(* adopted (history): the version is not the one the page was loaded with. *)
Editor ==
  [phase : {"closed", "open", "switching", "rotating", "conflict"}, base : Definitions \cup {None},
   active : BOOLEAN, version : 0 .. MaxVersion, reply : 0 .. MaxVersion, adopted : BOOLEAN]
Closed == [phase |-> "closed", base |-> None, active |-> FALSE, version |-> 0, reply |-> 0,
           adopted |-> FALSE]

TypeOK ==
  /\ row \in RoutineRow
  /\ editor \in [Editors -> Editor]
  /\ \A e \in Editors : editor[e].version <= row.version /\ editor[e].reply <= row.version
  /\ foreign \in [Editors -> BOOLEAN]

Init ==
  /\ \E definition \in Definitions : row = Inserted(definition, Kind)
  /\ editor = [e \in Editors |-> Closed]
  /\ foreign = [e \in Editors |-> FALSE]

In(e, phase) == editor[e].phase = phase
Write(new) == row.version < MaxVersion /\ row' = new
ChangedBy(e) == foreign' = [f \in Editors |-> f # e \/ foreign[f]]

(* loadExisting. *)
Load(e) ==
  /\ In(e, "closed") \/ In(e, "conflict")
  /\ editor' = [editor EXCEPT ![e] = [Closed EXCEPT !.phase = "open", !.base = row.definition,
                                                    !.active = row.active, !.version = row.version]]
  /\ foreign' = [foreign EXCEPT ![e] = FALSE]
  /\ UNCHANGED row

Unchecked(e) == TRUE   \* mutant: the version is not compared
UpToDate(e) == editor[e].version = row.version

(* save, with a draft that has some definition and the switch on or off:   *)
(* the PUT is refused, or accepted - and its answer can be lost, which     *)
(* leaves the page as it was.                                              *)
SaveRefused(e) ==
  /\ In(e, "open")
  /\ ~UpToDate(e)
  /\ editor' = [editor EXCEPT ![e].phase = "conflict"]
  /\ UNCHANGED <<row, foreign>>

SaveAccepted(e, definition, active) ==
  /\ In(e, "open")
  /\ UpToDate(e)
  /\ Write(Updated(row, definition, Kind, 0))
  /\ ChangedBy(e)
  /\ \/ UNCHANGED editor
     \/ editor' = [editor EXCEPT ![e] = IF row.active = active THEN Closed
                                        ELSE [@ EXCEPT !.phase = "switching", !.active = active]]

(* ... and the switch, by a request of its own.  When it fails the page    *)
(* stays open, with the version it had loaded.                             *)
Switch(e) ==
  /\ In(e, "switching")
  /\ \/ Write(Activated(row, editor[e].active, 0)) /\ ChangedBy(e)
     \/ UNCHANGED <<row, foreign>>
  /\ \E phase \in {"closed", "open"} :
       /\ phase = "closed" => row' # row
       /\ editor' = [editor EXCEPT ![e] = IF phase = "closed" THEN Closed ELSE [@ EXCEPT !.phase = "open"]]

(* rotateWebhook: the page takes over the version of the answer. *)
Rotate(e) ==
  /\ In(e, "open")
  /\ Kind = "webhook"
  /\ Write(Rotated(row))
  /\ ChangedBy(e)
  /\ editor' = [editor EXCEPT ![e].phase = "rotating", ![e].reply = row.version + 1]

RotateAnswered(e) ==
  /\ In(e, "rotating")
  /\ \/ editor' = [editor EXCEPT ![e].phase = "open", ![e].reply = 0]
     \/ editor' = [editor EXCEPT ![e].phase = "open", ![e].reply = 0,
                                 ![e].version = editor[e].reply, ![e].adopted = TRUE]
  /\ UNCHANGED <<row, foreign>>

Leave(e) ==
  /\ In(e, "open") \/ In(e, "conflict")
  /\ editor' = [editor EXCEPT ![e] = Closed]
  /\ UNCHANGED <<row, foreign>>

(* The list of routines and other clients. *)
Elsewhere ==
  /\ \/ \E definition \in Definitions :
          Write(Restyled(row, definition)) \/ Write(Updated(row, definition, Kind, 0))
     \/ \E active \in BOOLEAN : Write(Activated(row, active, 0))
  /\ foreign' = [e \in Editors |-> TRUE]
  /\ UNCHANGED editor

Next ==
  \/ \E e \in Editors :
       \/ Load(e) \/ SaveRefused(e)
       \/ \E definition \in Definitions, active \in BOOLEAN : SaveAccepted(e, definition, active)
       \/ Switch(e) \/ Rotate(e) \/ RotateAnswered(e) \/ Leave(e)
  \/ Elsewhere

Spec == Init /\ [][Next]_vars

-----------------------------------------------------------------------------
(* Optimistic locking: an editor that saves with the version it was loaded *)
(* with saves only over what its user has seen - after lost answers, half  *)
(* saved drafts and failed rotations, too.                                 *)
SavesOverWhatItLoaded ==
  [][\A e \in Editors, definition \in Definitions, active \in BOOLEAN :
       SaveAccepted(e, definition, active) /\ ~editor[e].adopted => ~foreign[e]]_vars

-----------------------------------------------------------------------------
(* What the API description says and the page does not do.                 *)

(* "Passing version in the body enables optimistic locking - if the        *)
(* routine changed in the meantime, the response is 409."                  *)
NoLostUpdate ==
  [][\A e \in Editors, definition \in Definitions, active \in BOOLEAN :
       SaveAccepted(e, definition, active) => ~foreign[e]]_vars
=============================================================================
