----------------------------- MODULE MCChatWindow -----------------------------
(***************************************************************************)
(* Small instances of ChatWindow: two prompts through one window.  What    *)
(* the documents say and the driver does not is stated here.               *)
(***************************************************************************)
EXTENDS ChatWindow

CONSTANTS c1, c2, t1, t2, d1, d2

Apart == c1 :> t1 @@ c2 :> t2

TwoDispatches == t1 :> d1 @@ t2 :> d2

(* A prompt for a chat of its own, and one that continues what is shown.    *)
NewAndContinued == c1 :> "new_chat" @@ c2 :> "continue"

(* docs/superpowers/specs/2026-04-05-trae-prompt-contract-and-session-      *)
(* guard-design.md:268: a snapshot is limited to the last chat, what is     *)
(* outside of it is not read.                                               *)
ReadsOwnChat ==
    [][\A c \in Chats : At(c, "prepared") /\ At(c, "based")' /\ ModeOf[c] = "new_chat" =>
         Len(driver'[c].responses) <= Len(Shown)]_vars

(* The same document, lines 269 and 285: where the identifier of another    *)
(* task is still read the driver fails before it sends.                     *)
StaleIsRefused ==
    [][\A c \in Chats : At(c, "prepared") /\ At(c, "based")' /\ ModeOf[c] = "new_chat" =>
         \A i \in DOMAIN Activity : \A j \in DOMAIN Activity[i] :
             Activity[i][j].kind = "id" => Activity[i][j].value \in {TaskOf[c], Template}]_vars

(* docs/ARCHITECTURE.md:178: a continuation goes on in the original thread. *)
(* Its finished report is taken after the idle time.                        *)
ContinuedIsTaken ==
    \A c \in Chats :
        At(c, "collecting") /\ ModeOf[c] = "continue" /\ IsShown(c) /\ IsWhole(Last(Shown)) =>
            driver[c].pause <= Idle
=============================================================================
