------------------------------ MODULE MCVncRfb ------------------------------
(***************************************************************************)
(* The receiving side of the VNC console at its three levels of detail,    *)
(* one in each behaviour: the bytes of every message, the session with     *)
(* every scheme in the versions that have it, and the screen.              *)
(***************************************************************************)
EXTENDS MCVncStream, VncSession, VncDisplay

VARIABLE level

MCServers ==
  [scheme : {"none", "vnc", "mslogon", "xvp", "vencrypt", "tight", "ard"},
   old : {FALSE}, accepts : BOOLEAN] \cup
  [scheme : {"ra2", "empty", "unsupported"}, old : {FALSE}, accepts : {FALSE}] \cup
  [scheme : {"none", "vnc"}, old : {TRUE}, accepts : BOOLEAN]

\* What a level that does not run starts from.
Plainest == <<V, OldSecurity, ServerInit(2, -1), FBU(<<RectN("rre", 2), RectN("rre", 0)>>), Msg("bell")>>

RfbInit ==
  /\ StrInit /\ SesInit /\ DispInit
  /\ level \in {"stream", "session", "screen"}
  /\ level # "stream" => script = Plainest /\ ~strViewOnly
  /\ level # "session" => /\ server = [scheme |-> "none", old |-> FALSE, accepts |-> TRUE]
                          /\ r = NewRFB("none") /\ ~viewOnly

RfbNext ==
  /\ UNCHANGED level
  /\ \/ level = "stream" /\ StrNext /\ UNCHANGED <<sesVars, dispVars>>
     \/ level = "session" /\ SesNext /\ UNCHANGED <<strVars, dispVars>>
     \/ level = "screen" /\ DispNext /\ UNCHANGED <<strVars, sesVars>>

\* SesFairness and DispFairness of the level that runs.
RfbSpec ==
  /\ RfbInit /\ [][RfbNext]_<<strVars, sesVars, dispVars, level>>
  /\ WF_sesVars(level = "session" /\ Message) /\ WF_sesVars(level = "session" /\ (InitMsg \/ NormalMsg))
  /\ WF_sesVars(level = "session" /\ Resume) /\ WF_sesVars(level = "session" /\ ARDAuthAsync)
  /\ WF_sesVars(level = "session" /\ DisconnectTimeout) /\ WF_sesVars(level = "session" /\ DialogMoves)
  /\ WF_sesVars(level = "session" /\ ServerTurn) /\ WF_sesVars(level = "session" /\ Submit)
  /\ WF_dispVars(level = "screen" /\ \E n \in 1..MaxOps : ImageLoads(n) \/ ImageBreaks(n))
  /\ WF_dispVars(level = "screen" /\ \E c \in DOMAIN decoding : HandleFrame(c))
  /\ WF_dispVars(level = "screen" /\ EndUpdate)
=============================================================================
