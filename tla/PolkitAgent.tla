----------------------------- MODULE PolkitAgent -----------------------------
(***************************************************************************)
(* The authentication agent of the shell: PolKitAgentListener of           *)
(* plugins/polkit.  polkitd begins an authentication with the identities   *)
(* that may grant it; the listener makes one Dialog, for the first of      *)
(* them, and a session with a helper for each.  A helper asks for its      *)
(* password with request() and ends with completed(); the user's answer to *)
(* the dialog runs what request() connected to it.                         *)
(*                                                                         *)
(* Every handler works on m_dialog, whichever dialog that is by then.  A   *)
(* handler that finds no dialog, or calls a session that was deleted, ends *)
(* the shell here: the assertions of the listener fail, and with them      *)
(* compiled out the null or dangling pointer is used.                      *)
(***************************************************************************)
EXTENDS Naturals, SequencesExt

CONSTANTS Identity,          \* who may authenticate
          Authentications    \* bound: how often polkitd begins one

ASSUME PolkitAssumption == Identity # {} /\ Authentications \in Nat \ {0}

Auth == 1 .. Authentications
PolkitSession == [auth : Auth, identity : Identity]
NoDialog == 0    \* m_dialog == nullptr

VARIABLES
    asked,      \* identities of each authentication, <<>> before it begins
    mDialog,    \* m_dialog: the authentication its dialog was made for
    dialogs,    \* the dialogs that exist, those marked for deletion included
    finished,   \* by dialog: the sessions connected to finished(), in order
    typed,      \* m_password of each dialog
    helper,     \* by session: "none", "running", "asking", "answered", "ended"
    answers,    \* history: <<session, dialog whose password it was given>>
    overlapped, \* history: an authentication began while a session ran, or
                \* had more than one session
    fell        \* the handler the shell fell in, or "none"; "late": the answer
                \* to a dialog that was marked for deletion before

polkitVars == <<asked, mDialog, dialogs, finished, typed, helper, answers,
                overlapped, fell>>

PolkitTypeOK ==
    /\ \A a \in Auth : Range(asked[a]) \subseteq Identity
    /\ mDialog \in dialogs \cup {NoDialog}
    /\ dialogs \subseteq Auth
    /\ \A a \in Auth : Range(finished[a]) \subseteq PolkitSession
    /\ typed \in [Auth -> {"", "password"}]
    /\ helper \in [PolkitSession ->
                      {"none", "running", "asking", "answered", "ended"}]
    /\ answers \subseteq PolkitSession \X Auth
    /\ overlapped \in BOOLEAN
    /\ fell \in {"none", "request", "completed", "answer", "late"}

PolkitInit ==
    /\ asked = [a \in Auth |-> <<>>]
    /\ mDialog = NoDialog
    /\ dialogs = {}
    /\ finished = [a \in Auth |-> <<>>]
    /\ typed = [a \in Auth |-> ""]
    /\ helper = [s \in PolkitSession |-> "none"]
    /\ answers = {}
    /\ overlapped = FALSE
    /\ fell = "none"

\* m_dialog->identity() is that of the session.
ShownFor(dialog, s) == asked[dialog][1] = s.identity

(***************************************************************************)
(* initiateAuthentication.  The dialog before is marked for deletion; its  *)
(* sessions and what they are connected to stay.                           *)
(***************************************************************************)
InitiateAuthentication(a, identities) ==
    /\ fell = "none"
    /\ asked[a] = <<>> /\ \A b \in 1 .. a - 1 : asked[b] # <<>>
    /\ asked' = [asked EXCEPT ![a] = identities]
    /\ mDialog' = a
    /\ dialogs' = dialogs \cup {a}
    /\ helper' = [s \in PolkitSession |->
                     IF s.auth = a /\ s.identity \in Range(identities)
                     THEN "running" ELSE helper[s]]
    /\ overlapped' = (\/ overlapped \/ Len(identities) > 1
                      \/ \E s \in PolkitSession : helper[s] \notin {"none", "ended"})
    /\ UNCHANGED <<finished, typed, answers, fell>>

(***************************************************************************)
(* request: the helper asks once for its password; the listener connects   *)
(* the session to the dialog of the moment and has it shown.               *)
(***************************************************************************)
Request(s) ==
    /\ fell = "none"
    /\ helper[s] = "running"
    /\ IF mDialog = NoDialog
       THEN fell' = "request" /\ UNCHANGED <<finished, helper>>
       ELSE /\ finished' = [finished EXCEPT ![mDialog] = Append(@, s)]
            /\ helper' = [helper EXCEPT ![s] = "asking"]
            /\ UNCHANGED fell
    /\ UNCHANGED <<asked, mDialog, dialogs, typed, answers, overlapped>>

\* Mutant: the dialog is marked for deletion, and m_dialog still points to it.
KeepDialog(now, s) ==
    IF now.mDialog = NoDialog THEN [now EXCEPT !.fell = "completed"]
    ELSE [now EXCEPT !.helper[s] = "ended"]

(***************************************************************************)
(* completed: a session ends.  The one the dialog is for takes the dialog  *)
(* with it.  "now" is what a handler has changed so far.                   *)
(***************************************************************************)
AfterCompleted(now, s) ==
    IF now.mDialog = NoDialog THEN [now EXCEPT !.fell = "completed"]
    ELSE [now EXCEPT !.helper[s] = "ended",
                     !.mDialog = IF ShownFor(@, s) THEN NoDialog ELSE @]

\* The lambda of request: setResponse, or Session::cancel, which completes
\* the session before it returns.
AfterAnswer(now, s) ==
    CASE now.fell # "none" -> now
      [] now.fell = "none" /\ (now.mDialog = NoDialog \/ now.helper[s] = "ended") ->
            [now EXCEPT !.fell = "answer"]
      [] OTHER ->
            IF ShownFor(now.mDialog, s) /\ now.typed[now.mDialog] # ""
            THEN [now EXCEPT !.helper[s] = "answered",
                             !.answers = @ \cup {<<s, now.mDialog>>}]
            ELSE AfterCompleted(now, s)

Now == [mDialog |-> mDialog, typed |-> typed, helper |-> helper,
        answers |-> answers, fell |-> fell]

AgentBecomes(now) ==
    /\ mDialog' = now.mDialog
    /\ typed' = now.typed
    /\ helper' = now.helper
    /\ answers' = now.answers
    /\ fell' = now.fell

\* A helper is done, has it asked or not.
Completed(s) ==
    /\ fell = "none"
    /\ helper[s] \in {"running", "asking", "answered"}
    /\ AgentBecomes(AfterCompleted(Now, s))
    /\ UNCHANGED <<asked, dialogs, finished, overlapped>>

(***************************************************************************)
(* Dialog::setConfirmationResult, from PolkitDialog: each session that is  *)
(* connected gets its turn.  A dialog marked for deletion may be answered  *)
(* until it is gone, and its handlers then meet the m_dialog of the moment *)
(* and sessions that were deleted.                                         *)
(***************************************************************************)
Answered(d, password) ==
    LET now == FoldLeft(AfterAnswer, [Now EXCEPT !.typed[d] = password], finished[d])
    IN  IF now.fell = "answer" /\ d # mDialog THEN [now EXCEPT !.fell = "late"] ELSE now

SetConfirmationResult(d, password) ==
    /\ fell = "none"
    /\ d \in dialogs /\ finished[d] # <<>>
    /\ AgentBecomes(Answered(d, password))
    /\ UNCHANGED <<asked, dialogs, finished, overlapped>>

\* The event loop deletes a dialog that was marked.
DeleteDialog(d) ==
    /\ fell = "none"
    /\ d \in dialogs \ {mDialog}
    /\ dialogs' = dialogs \ {d}
    /\ UNCHANGED <<asked, mDialog, finished, typed, helper, answers, overlapped, fell>>

IdentityLists == {l \in UNION {[1 .. n -> Identity] : n \in 1 .. 2} :
                      IsInjective(l)}

PolkitNext ==
    \/ \E a \in Auth, l \in IdentityLists : InitiateAuthentication(a, l)
    \/ \E s \in PolkitSession : Request(s) \/ Completed(s)
    \/ \E d \in Auth, password \in {"", "password"} :
          SetConfirmationResult(d, password)
    \/ \E d \in Auth : DeleteDialog(d)

PolkitSpec == PolkitInit /\ [][PolkitNext]_polkitVars

(***************************************************************************)
(* Authentications that come one after the other, each for one identity,   *)
(* bring the shell down in one way only, a late answer to a dialog that    *)
(* was marked for deletion: in every other order of requests, answers,     *)
(* cancels and failures a session that asks, ends or is answered finds a   *)
(* dialog and itself, and a helper is only given what was typed into the   *)
(* dialog of its own authentication, though every handler takes whichever  *)
(* dialog m_dialog is by then (polkitagentlistener.cpp:60-103).            *)
(***************************************************************************)
SafeInTurn ==
    ~overlapped => /\ fell \in {"none", "late"}
                   /\ \A answer \in answers : answer[1].auth = answer[2]

(***************************************************************************)
(* The assertions of request() and completed(), Q_ASSERT(m_dialog): there  *)
(* is a dialog whenever a session asks or ends.                            *)
(***************************************************************************)
DialogHeld == fell \notin {"request", "completed"}
==============================================================================
