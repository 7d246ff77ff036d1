-------------------------- MODULE DocumentHistory --------------------------
(* What a versioned artifact promises its readers: a document edited by    *)
(* one editor at a time.  Its history only grows; the shown text is an     *)
(* entry of it, the latest one with that text or a copy that a restore has *)
(* appended; a removed document changes no more.                           *)
EXTENDS Naturals, Sequences

CONSTANTS
  Contents,
  Blank         \* the text of a document that does not exist

VARIABLES
  state,        \* "absent", "live" or "deleted"
  history,      \* the texts in the order they were appended
  shown,        \* the shown entry, 0 for a document without history
  text

docVars == <<state, history, shown, text>>

Init == state = "absent" /\ history = <<>> /\ shown = 0 /\ text = Blank

(* A document starts with its text as first entry, or without history. *)
Start(c) ==
  /\ state = "absent"
  /\ state' = "live"
  /\ text' = c
  /\ \/ history' = <<c>> /\ shown' = 1
     \/ UNCHANGED <<history, shown>>

Show(n, c) ==
  /\ state = "live"
  /\ shown' = n
  /\ text' = c
  /\ UNCHANGED state

Latest(n) ==
  /\ n \in 1..Len(history)
  /\ \A k \in 1..Len(history) : history[k] = history[n] => k <= n

(* A text that the history has is shown again, any other is appended. *)
Resubmit(n) == Latest(n) /\ Show(n, history[n]) /\ UNCHANGED history
Submit(c) ==
  /\ \A n \in 1..Len(history) : history[n] # c
  /\ history' = Append(history, c)
  /\ Show(Len(history) + 1, c)

(* A restored entry is appended once more. *)
RestoreEntry(n) ==
  /\ history' = Append(history, history[n])
  /\ Show(Len(history) + 1, history[n])

Remove ==
  /\ state = "live"
  /\ state' = "deleted"
  /\ UNCHANGED <<history, shown, text>>

Next ==
  \/ \E c \in Contents : Start(c) \/ Submit(c)
  \/ \E n \in 1..Len(history) : Resubmit(n) \/ RestoreEntry(n)
  \/ Remove

Spec == Init /\ [][Next]_docVars
=============================================================================
