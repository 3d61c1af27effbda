------------------------------ MODULE AtSession ------------------------------
(***************************************************************************)
(* What the AT console promises to its host: a line editor and a strict    *)
(* alternation.  The host types a line of at most LineMax characters, a    *)
(* carriage return outside quotes submits it, the device executes exactly  *)
(* that line and answers once, and only then the next line begins.         *)
(* AtConsole implements it for a host that waits for its answers.          *)
(***************************************************************************)
EXTENDS Integers, Sequences, FiniteSetsExt

CONSTANTS
  Plain,     \* the characters without a meaning of their own
  LineMax    \* the longest line

NUL == "nul"
CR == "cr"
BS == "bs"
QUOTE == "quote"
Char == Plain \cup {NUL, CR, BS, QUOTE}

(* The part of a line a C string function sees. *)
UpToNul(s) ==
  LET nuls == {i \in 1 .. Len(s) : s[i] = NUL}
  IN  IF nuls = {} THEN s ELSE SubSeq(s, 1, Min(nuls) - 1)

VARIABLES
  line,    \* the line being typed
  quoted,  \* is the line inside a quoted string?
  phase,   \* "typing", "submitted" or "running"
  cmd      \* the command being executed

sessionVars == <<line, quoted, phase, cmd>>

SessionInit ==
  line = <<>> /\ quoted = FALSE /\ phase = "typing" /\ cmd = <<>>

(* A character beyond the longest line is dropped, a carriage return too. *)
Type(c) ==
  /\ phase = "typing" /\ c # BS
  /\ quoted' = IF c = QUOTE THEN ~quoted ELSE quoted
  /\ line' = IF Len(line) < LineMax THEN Append(line, c) ELSE line
  /\ phase' = IF c = CR /\ ~quoted /\ Len(line) < LineMax
              THEN "submitted" ELSE "typing"
  /\ UNCHANGED cmd

Erase ==
  /\ phase = "typing"
  /\ line' = IF line = <<>> THEN <<>> ELSE SubSeq(line, 1, Len(line) - 1)
  /\ UNCHANGED <<quoted, phase, cmd>>

Execute ==
  /\ phase = "submitted"
  /\ phase' = "running"
  /\ cmd' = UpToNul(line)
  /\ line' = <<>>
  /\ UNCHANGED quoted

Answer ==
  /\ phase = "running"
  /\ phase' = "typing"
  /\ cmd' = <<>>
  /\ UNCHANGED <<line, quoted>>

SessionNext == (\E c \in Char : Type(c)) \/ Erase \/ Execute \/ Answer

SessionSpec ==
  /\ SessionInit /\ [][SessionNext]_sessionVars
  /\ WF_sessionVars(Execute) /\ WF_sessionVars(Answer)
=============================================================================
