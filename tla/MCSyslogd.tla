----------------------------- MODULE MCSyslogd ------------------------------
(* Messages for TLC: none, a letter, a line, one that is too long by a     *)
(* byte for a MessageMax of 2, and one whose cut ends in a line break; the *)
(* log ends within a line.                                                 *)
EXTENDS Syslogd

Letter == 65

MCOldText == <<Letter>>

MCDatagrams ==
  {<<>>, <<Letter>>, <<Letter, NewLine>>,
   <<Letter, Letter, NewLine>>, <<Letter, NewLine, Letter>>}
=============================================================================
