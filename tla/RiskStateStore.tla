--------------------------- MODULE RiskStateStore ---------------------------
(***************************************************************************)
(* RiskStateStore of crates/arbkit-exec/src/state.rs and the in-flight     *)
(* list kept by Reconciler (reconcile.rs).                                 *)
(*                                                                         *)
(* The store is one JSON file, replaced as a whole: every operation loads  *)
(* the last committed state, changes it and commits it with a rename, so   *)
(* it either takes effect or leaves the file alone.  A call's outcome is   *)
(*   "ok"         it loads and saves                                       *)
(*   "saveFails"  the write or the rename fails                            *)
(*   "loadFails"  the file cannot be read or decoded; a save works         *)
(* The durable state is [exists, config, loss, open, inflight].  An        *)
(* in-flight entry [id, order] has order = 0 until it is acknowledged.     *)
(* Entries are unique by id, so a set stands for the code's Vec.           *)
(***************************************************************************)
EXTENDS Integers

CONSTANT DefaultPolicy    \* RiskConfig::default()

Ids(entries) == {e.id : e \in entries}

\* retain(id differs), then push.
Put(entries, e) == {f \in entries : f.id # e.id} \cup {e}

Drop(entries, id) == {f \in entries : f.id # id}

AckEntry(entries, id, order) ==
    {IF f.id = id THEN [f EXCEPT !.order = order] ELSE f : f \in entries}

NoDisk == [exists |-> FALSE, config |-> DefaultPolicy, loss |-> 0, open |-> 0,
           inflight |-> {}]

\* load returns Ok.
Loads(disk, o) == disk.exists /\ o # "loadFails"

\* Mutant of Checkpoint: the plain save(From<&gate>) the code warns about.
CheckpointPlain(disk, g, o) ==
    IF o = "saveFails" THEN disk
    ELSE [exists |-> TRUE, config |-> g.config, loss |-> g.loss, open |-> g.open,
          inflight |-> {}]

\* checkpoint: the gate's fields over what is stored; when nothing can be
\* loaded the snapshot made from the gate has no in-flight order.
Checkpoint(disk, g, o) ==
    IF o = "saveFails" THEN disk
    ELSE [exists |-> TRUE, config |-> g.config, loss |-> g.loss, open |-> g.open,
          inflight |-> IF Loads(disk, o) THEN disk.inflight ELSE {}]

\* register_inflight: starts from a default state when nothing can be loaded.
RegisterInflight(disk, e, o) ==
    LET state == IF Loads(disk, o) THEN disk ELSE [NoDisk EXCEPT !.exists = TRUE]
    IN  IF o = "saveFails" THEN disk
        ELSE [state EXCEPT !.inflight = Put(@, e)]

\* acknowledge and clear_inflight give up when the state cannot be loaded.
Acknowledge(disk, id, order, o) ==
    IF Loads(disk, o) /\ o = "ok"
    THEN [disk EXCEPT !.inflight = AckEntry(@, id, order)] ELSE disk

\* Mutant of ClearInflight: the whole recovery set is emptied.
ClearAllInflight(disk, id, o) ==
    IF Loads(disk, o) /\ o = "ok" THEN [disk EXCEPT !.inflight = {}] ELSE disk

ClearInflight(disk, id, o) ==
    IF Loads(disk, o) /\ o = "ok"
    THEN [disk EXCEPT !.inflight = Drop(@, id)] ELSE disk
=============================================================================
