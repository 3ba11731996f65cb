------------------------------- MODULE LogFile -------------------------------
(***************************************************************************)
(* The file of the logger's Pod, which the collector appends to and the    *)
(* endpoint reads: whole entries, and what there is after the last of      *)
(* them.  A write of several entries is seen to grow by anybody who reads  *)
(* the file meanwhile.  An entry that was cut short spoils the file: it    *)
(* cannot be parsed from then on, so what is appended later is left out.   *)
(***************************************************************************)
EXTENDS Sequences

VARIABLES log,   \* the whole entries
          end    \* after them: "whole" nothing, "half" an entry that is being
                 \* written, "torn" one that was cut short

LogInit ==
  /\ log = <<>>
  /\ end = "whole"

\* The first bytes of an entry are in the file.
BeginEntry ==
  /\ end = "whole"
  /\ end' = "half"
  /\ UNCHANGED log

\* All of it is.
EndEntry(entry) ==
  /\ end = "half"
  /\ end' = "whole"
  /\ log' = Append(log, entry)

\* The write ends early: the disk is full, or the process has died.
TearEntry ==
  /\ end = "half"
  /\ end' = "torn"
  /\ UNCHANGED log

\* All that may happen to the file of one logger's Pod.
FileNext ==
  \/ BeginEntry
  \/ log' # <<>> /\ EndEntry(log'[Len(log')])
  \/ TearEntry

FileSpec == LogInit /\ [][FileNext]_<<log, end>>

\* What ReadFile and Unmarshal of the whole text make of the file: nothing at
\* all unless every entry is whole.
Readable == IF end = "whole" THEN log ELSE <<>>
=============================================================================
