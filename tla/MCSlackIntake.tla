---------------------------- MODULE MCSlackIntake -----------------------------
(* Instances of SlackIntake for TLC. *)
EXTENDS SlackIntake, TLC

CONSTANTS ask, chat, dm, more

\* A mention in a channel Kevin does not listen to, a mention in one he does, a
\* direct message, and a follow-up in the thread of that mention.
KindOf == ask :> "quiet" @@ chat :> "active" @@ dm :> "dm" @@ more :> "active"
ThreadOf == ask :> TopLevel @@ chat :> TopLevel @@ dm :> TopLevel @@ more :> chat
KindOfPosts == [m \in Posts |-> KindOf[m]]
ThreadOfPosts == [m \in Posts |-> ThreadOf[m]]
===============================================================================
