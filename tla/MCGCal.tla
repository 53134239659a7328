-------------------------------- MODULE MCGCal --------------------------------
(* An instance of GCal for TLC. *)
EXTENDS GCal, TLC

CONSTANTS k1, k2, k3

\* One call renames the standing event, one deletes it, and one reads, creates
\* another event or moves the standing one.
Either(t) == k1 :> t @@ k2 :> "update" @@ k3 :> "delete"
PlansOf == {Either("read"), Either("create"), Either("update")}
NamedBy == k1 :> {"time"} @@ k2 :> {"title"} @@ k3 :> {}
===============================================================================
