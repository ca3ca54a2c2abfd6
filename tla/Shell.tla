-------------------------------- MODULE Shell --------------------------------
(***************************************************************************)
(* The shell on top of the keyboard path: main_shell() reads the standard  *)
(* input character by character into command[], forks a child to execute   *)
(* the line and waits for it.  While it waits, keys fill the buffer.       *)
(***************************************************************************)
EXTENDS Keyboard, SequencesExt

CONSTANTS
  Printable,   \* the characters from 32 to 126
  Backspace,
  Newline,
  MAX_CMD_LEN  \* the size of command[]

ASSUME ShellAssumption ==
  /\ Backspace # Newline
  /\ Printable \cap {Backspace, Newline} = {}
  /\ MAX_CMD_LEN \in Nat

VARIABLES
  stage,   \* "prompt", "read" or "wait", of each shell
  command  \* command[0 .. i - 1] of each shell

svars == <<kvars, stage, command>>

SInit ==
  /\ KInit
  /\ stage = [t \in Reader |-> "prompt"]
  /\ command = [t \in Reader |-> <<>>]

\* sys_read(FD_STDIN, &ch, 1)
ReadChar(t) ==
  /\ stage[t] = "prompt"
  /\ stage' = [stage EXCEPT ![t] = "read"]
  /\ CallGet(t)
  /\ UNCHANGED command

\* sys_read has returned.
Got(t) == stage[t] = "read" /\ pc[t] = "user"

\* A slip: the line is given up one character too late.
Insert_OneTooMany(t) ==
  /\ Got(t) /\ ch[t] \in Printable
  /\ command' = [command EXCEPT ![t] =
                   IF Len(@) <= MAX_CMD_LEN THEN Append(@, ch[t]) ELSE <<>>]
  /\ stage' = [stage EXCEPT ![t] = "prompt"]
  /\ UNCHANGED kvars

\* A character of the line; the line is given up when it gets too long.
Insert(t) ==
  /\ Got(t) /\ ch[t] \in Printable
  /\ command' = [command EXCEPT ![t] =
                   IF Len(@) < MAX_CMD_LEN THEN Append(@, ch[t]) ELSE <<>>]
  /\ stage' = [stage EXCEPT ![t] = "prompt"]
  /\ UNCHANGED kvars

Delete(t) ==
  /\ Got(t) /\ ch[t] = Backspace
  /\ command' = [command EXCEPT ![t] = IF @ = <<>> THEN @ ELSE Front(@)]
  /\ stage' = [stage EXCEPT ![t] = "prompt"]
  /\ UNCHANGED kvars

\* An empty line is read again; any other is ended with a 0, forked and executed.
Enter(t) ==
  /\ Got(t) /\ ch[t] = Newline
  /\ stage' = [stage EXCEPT ![t] = IF command[t] = <<>> THEN "prompt" ELSE "wait"]
  /\ UNCHANGED <<kvars, command>>

\* A character that is none of these: a control character or a tab.
Ignore(t) ==
  /\ Got(t) /\ ch[t] \notin Printable \cup {Backspace, Newline}
  /\ stage' = [stage EXCEPT ![t] = "prompt"]
  /\ UNCHANGED <<kvars, command>>

\* sys_wait() returns: the child has run the command.
ChildEnded(t) ==
  /\ stage[t] = "wait"
  /\ stage' = [stage EXCEPT ![t] = "prompt"]
  /\ command' = [command EXCEPT ![t] = <<>>]
  /\ UNCHANGED kvars

main_shell(t) ==
  ReadChar(t) \/ Insert(t) \/ Delete(t) \/ Enter(t) \/ Ignore(t) \/ ChildEnded(t)

SNext ==
  \/ (ps2_intr \/ \E t \in Reader : cclbuff_get(t)) /\ UNCHANGED <<stage, command>>
  \/ \E t \in Reader : main_shell(t)

SSpec == SInit /\ [][SNext]_svars

SFairSpec == SSpec /\ KFairness
-----------------------------------------------------------------------------
(***************************************************************************)
(* The type invariant; the index of command[] stays within its size.       *)
(***************************************************************************)
STypeOK ==
  /\ KTypeOK
  /\ stage \in [Reader -> {"prompt", "read", "wait"}]
  /\ command \in [Reader -> Seq(Printable)]
  /\ \A t \in Reader : Len(command[t]) <= MAX_CMD_LEN
=============================================================================
