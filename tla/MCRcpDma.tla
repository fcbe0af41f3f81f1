------------------------------ MODULE MCRcpDma ------------------------------
(* RcpDma, with programs that drive one engine from a hard reset to the    *)
(* next: the engines share nothing but the resets.                         *)
EXTENDS RcpDma, FiniteSets

AtPowerOn(e) ==
  CASE e = "SI" -> /\ si = SiReset /\ ~siLine
                   /\ pif.ram = Empty /\ dram = [a \in Addresses |-> Empty]
    [] e = "PI" -> pi.status = {} /\ pi.events = 0 /\ ~piLine
    [] e = "AI" -> ai = AiReset /\ ~aiLine
    [] e = "SP" -> sp = SpReset
OneEngine == Cardinality({e \in {"SI", "PI", "AI", "SP"} : ~AtPowerOn(e)}) <= 1
=============================================================================
