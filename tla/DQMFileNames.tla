----------------------------- MODULE DQMFileNames -----------------------------
(***************************************************************************)
(* What the name of a data file says of it (DQM/visDQMUtils.py).  A name   *)
(* is that of a file of the online system or of an offline one,            *)
(*    DQM_V0001_<subsystem>_R<run>.root                                    *)
(*    DQM_V0001_R<run>__<primary dataset>__<processed dataset>__<tier>.root*)
(* or neither; of a dataset counts what the patterns tell apart.           *)
(***************************************************************************)
EXTENDS Naturals

Primaries == {"RelValX", "RelVal", "other"}

(* How the processed dataset begins: with a release and a separator, with  *)
(* an acquisition era, with an era that has CMSSW in its name, or with     *)
(* nothing known.                                                          *)
Processed == {"release", "era", "cmsswEra", "unknown"}

(* parts: of the dataset, once each "__" is taken for a "/".  rundep: has  *)
(* rundepMC after that beginning.  cmssw: has CMSSW in another place.      *)
Names ==
  [kind : {"online", "offline", "other"}, version : Nat, run : Nat, parts : Nat,
   primary : Primaries, processed : Processed, rundep : BOOLEAN, cmssw : BOOLEAN]

Refused == "refused"

RXDATASET(n) == n.parts = 3
RXRELVALMC(n) == n.primary = "RelValX" /\ n.processed = "release"
RXRELVALRUNDEPMC(n) == RXRELVALMC(n) /\ n.rundep
RXRELVALDATA(n) == n.processed = "release"
(* Slip: rundepMC only where the processed dataset begins.                 *)
RXRUNDEPMCFirst(n) == n.primary = "other" /\ n.rundep /\ n.processed = "unknown"
RXRUNDEPMC(n) == n.primary = "other" /\ n.rundep
HasCMSSW(n) == n.cmssw \/ n.processed \in {"release", "cmsswEra"}

(* The first pattern that matches decides; a run number that does not fit  *)
(* it is refused.                                                          *)
Numbered(n, fits, class) == IF fits THEN class ELSE Refused

OnlineClass(n) == Numbered(n, n.version = 1 /\ n.run > 10000, "online_data")

OfflineClass(n) ==
  CASE ~RXDATASET(n) \/ n.version # 1 \/ n.run < 1 -> Refused
    [] RXDATASET(n) /\ n.version = 1 /\ n.run >= 1 ->
         IF RXRUNDEPMC(n) THEN Numbered(n, n.run # 1, "simulated_rundep")
         ELSE IF RXRELVALRUNDEPMC(n) THEN Numbered(n, n.run # 1, "relval_rundepmc")
         ELSE IF RXRELVALMC(n) THEN Numbered(n, n.run = 1, "relval_mc")
         ELSE IF RXRELVALDATA(n) THEN Numbered(n, n.run # 1, "relval_data")
         ELSE IF HasCMSSW(n) THEN Refused
         ELSE IF n.run > 1 THEN "offline_data" ELSE "simulated"

classifyDQMFile(n) ==
  CASE n.kind = "online" -> OnlineClass(n)
    [] n.kind = "offline" -> OfflineClass(n)
    [] n.kind = "other" -> Refused
================================================================================
