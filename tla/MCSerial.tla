------------------------------ MODULE MCSerial ------------------------------
(***************************************************************************)
(* The serial console's two ends, one in each behaviour: the page with its *)
(* client ("page"), and the daemon.  A page's paste runs against a         *)
(* superuser's connection to its VM ("take-over"), its new size against a  *)
(* connection to another VM that may come when it left ("limit"): there    *)
(* the invariant is checked.  In "ends" the consoles must end, with a paste*)
(* when the superuser is refused.                                          *)
(***************************************************************************)
EXTENDS SerialSessions, SerialPage

CONSTANTS User, Superuser   \* the two pages

VARIABLE part

MCTokens == [Pages -> {"vm"}] \cup {[s \in Pages |-> s]}
MCSends == {<<User, "paste">>, <<User, "resize">>}

SerialInit ==
  /\ PageInit /\ SerInit
  /\ part \in {"page", "take-over", "limit", "ends"}
  /\ part = "limit" <=> vm[User] # vm[Superuser]

\* Bounds: the user pastes or sizes the terminal, and pastes when the other is refused.
Bounds ==
  /\ part = "limit" \/ at'[<<"resize", User>>] = "off"
  /\ part = "limit" => at'[<<"paste", User>>] = "off"
  /\ part = "ends" => at'[<<"paste", User>>] = "off" \/ at[<<"connect", Superuser>>] = "refused"

SerialNext ==
  /\ UNCHANGED part
  /\ \/ part = "page" /\ PageNext /\ UNCHANGED serVars
     \/ part # "page" /\ SerNext /\ Bounds /\ UNCHANGED pageVars

\* SerFairness and PageFairness of the part that runs.
EndsFairness ==
  /\ \A s \in Pages :
       /\ WF_serVars(part = "ends" /\ ConnectStep(s)) /\ WF_serVars(part = "ends" /\ ForwardStep(s))
       /\ SF_serVars(part = "ends" /\ ForwardLocks(s))
       /\ WF_serVars(part = "ends" /\ Reap(s)) /\ WF_serVars(part = "ends" /\ Echoes(s))
  /\ \A i \in Sends : /\ WF_serVars(part = "ends" /\ InputStep(i[1], i[2]))
                      /\ SF_serVars(part = "ends" /\ InputLocks(i[1], i[2]))
  /\ SF_serVars(part = "ends" /\ \E t \in Threads : EndStep(t))
  /\ \A n \in Numbers : WF_serVars(part = "ends" /\ procs[n].state = "killed" /\ Exits(n))
ClientFairness ==
  /\ WF_pageVars(part = "page" /\ Microtask) /\ WF_pageVars(part = "page" /\ Message)
  /\ WF_pageVars(part = "page" /\ ConnectTimeout)
  /\ WF_pageVars(part = "page" /\ net = "cut" /\ PingExpires)
  /\ WF_pageVars(part = "page" /\ PingTimeout)
  /\ WF_pageVars(part = "page" /\ SrvReceives) /\ WF_pageVars(part = "page" /\ SrvAnswers)

SerialSpec ==
  SerialInit /\ [][SerialNext]_<<part, pageVars, serVars>> /\ EndsFairness /\ ClientFairness

\* What the daemon promises, and the page, where they run fairly.
ConsolesEnd == part = "ends" => ConsolesCleared /\ PagesTold
CutsNoticed == part = "page" => Noticed
=============================================================================
