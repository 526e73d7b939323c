---------------------------- MODULE CommandServer ----------------------------
(***************************************************************************)
(* What a connection of the UI server promises its client, and everybody   *)
(* else: the client asks for one command at a time and gets one answer to  *)
(* each, while it waits for that one; results are written once, and not    *)
(* those of a canceled command; a command in the background is neither     *)
(* canceled nor left alone when the client leaves; and nothing but a       *)
(* client that leaves while its command is at work ends the server.        *)
(***************************************************************************)
EXTENDS Naturals

CONSTANTS Command, NoCommand

VARIABLES asked,        \* the command whose answer the client waits for
          present,      \* the client is there
          state,        \* of the connection: "open", "closed", "deleted"; or
                        \* "aborted", with the server
          background,   \* the commands that run in the background
          answers,      \* how often each command was answered
          results,      \* how often its results were written
          canceled      \* the commands that were canceled

serverVars == <<asked, present, state, background, answers, results, canceled>>

Init ==
    /\ asked = NoCommand /\ present = TRUE /\ state = "open" /\ background = {}
    /\ answers = [c \in Command |-> 0] /\ results = [c \in Command |-> 0]
    /\ canceled = {}

Ask(c) ==
    /\ present /\ asked = NoCommand /\ answers[c] = 0
    /\ asked' = c
    /\ UNCHANGED <<present, state, background, answers, results, canceled>>

Leave ==
    /\ present /\ present' = FALSE
    /\ UNCHANGED <<asked, state, background, answers, results, canceled>>

MayWrite(c) == results[c] = 0 /\ c \notin canceled /\ c \notin background
Writes(c) == results' = [results EXCEPT ![c] = 1]

Answers(c) ==
    /\ present /\ state = "open" /\ asked = c /\ answers[c] = 0
    /\ answers' = [answers EXCEPT ![c] = 1]
    /\ asked' = NoCommand

Refuse(c) ==
    /\ MayWrite(c)
    /\ Answers(c)
    /\ UNCHANGED <<present, state, background, results, canceled>>

Finish(c) ==
    /\ MayWrite(c)
    /\ Answers(c) /\ Writes(c)
    /\ UNCHANGED <<present, state, background, canceled>>

\* Nobody hears the answer if the client has just left.
GoToBackground(c) ==
    /\ MayWrite(c)
    /\ \/ Answers(c)
       \/ ~present /\ state = "open" /\ asked = c /\ UNCHANGED <<answers, asked>>
    /\ background' = background \cup {c}
    /\ UNCHANGED <<present, state, results, canceled>>

\* The last one deletes a connection whose client has left.
FinishInBackground(c) ==
    /\ c \in background /\ results[c] = 0 /\ c \notin canceled
    /\ Writes(c)
    /\ background' = background \ {c}
    /\ \/ state = "closed" /\ background' = {} /\ state' = "deleted"
       \/ state = "closed" /\ background' # {} /\ UNCHANGED state
       \/ state = "open" /\ UNCHANGED state
    /\ UNCHANGED <<asked, present, answers, canceled>>

\* What the client still waits for is canceled, if it was begun and does not run
\* in the background.
Close ==
    /\ ~present /\ state = "open"
    /\ state' = IF background = {} THEN "deleted" ELSE "closed"
    /\ \/ UNCHANGED canceled
       \/ asked # NoCommand /\ MayWrite(asked) /\ canceled' = canceled \cup {asked}
    /\ UNCHANGED <<asked, present, background, answers, results>>

\* A command is through that can no longer answer.
Abort(c) ==
    /\ ~present /\ state = "open" /\ asked = c
    /\ MayWrite(c) /\ Writes(c)
    /\ state' = "aborted"
    /\ UNCHANGED <<asked, present, background, answers, canceled>>

Next ==
    \/ \E c \in Command :
          \/ Ask(c) \/ Refuse(c) \/ Finish(c) \/ GoToBackground(c)
          \/ FinishInBackground(c) \/ Abort(c)
    \/ Leave \/ Close

Spec == Init /\ [][Next]_serverVars
=============================================================================
