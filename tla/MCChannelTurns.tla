---------------------------- MODULE MCChannelTurns ----------------------------
(* Instances of ChannelTurns: the messages of one session, or of one each. *)
EXTENDS ChannelTurns
CONSTANTS s1, s2
OneSession  == [t \in Turns |-> s1]
TwoSessions == [t \in Turns |-> IF t = 1 THEN s1 ELSE s2]
=============================================================================
