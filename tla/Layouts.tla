------------------------------- MODULE Layouts -------------------------------
(***************************************************************************)
(* The layouts the repository's configuration registers (etc/config):      *)
(* those of the barrel of the electromagnetic calorimeter, supermodule by  *)
(* supermodule, of the drift tubes and of the first-level trigger.  A file *)
(* calls its function once for each layout, with a path and the objects to *)
(* show; a path registered again shows the objects of the last call.       *)
(***************************************************************************)
EXTENDS Integers, Sequences, SequencesExt

CONSTANT Supermodules   \* "EB-01", ..., "EB+18"

(* A call: the path of the layout and the objects of its rows.  An object  *)
(* is the task that fills it, what it shows, and of which supermodule.     *)
Layout(path, shows) == [path |-> path, shows |-> shows]
Of(task, sm, whats, gains) == {<<task, what, gain, sm>> : what \in whats, gain \in gains}
All == "all"

Quality(task, gain, sm) == <<task, "quality", gain, sm>>

--------------------------------------------------------------------------------
(* EcalBarrel: what holds for the barrel as a whole.                       *)
Summaries ==
  LET summary(name, what) ==
        Layout(<<"Summary", name>>, {Quality("Summary", what, All)})
  IN << summary("0-Global", "global"), summary("1-Integrity", "integrity"),
        summary("2-Occupancy", "occupancy"), summary("3-Cosmic", "cosmic"),
        summary("4-PedestalOnline", "G12"), summary("5-LaserL1", "L1"),
        Layout(<<"Integrity", "0-Integrity">>, Of("Integrity", All, {"DCC size"}, {All})) >>

Integrity(sm) ==
  LET layout(name, whats) == Layout(<<"Integrity", sm, name>>, Of("Integrity", sm, whats, {All}))
  IN << Layout(<<"Integrity", sm, "0-Channel-Global">>,
               {Quality("Integrity", "channels", sm), <<"Occupancy", "channels", All, sm>>}),
        layout("1-Channel", {"gain", "ChId"}),
        layout("2-Gain", {"gain switch", "gain switch stay"}),
        layout("3-TT", {"TTId", "TTBlockSize"}),
        Layout(<<"Integrity", sm, "4-MemBox-Global">>,
               {Quality("Integrity", "MEM", sm), <<"Occupancy", "MEM", All, sm>>}),
        layout("5-MemBox-Channel", {"MemChId", "MemGain"}),
        layout("6-MemBox-TT", {"MemTTId", "MemSize"}) >>

(* The pedestals of a gain: their quality, their mean and their spread.    *)
Pedestal(task, sm, gain) ==
  Layout(<<task, sm, gain, "0-Pedestal">>,
         {Quality(task, gain, sm)} \cup Of(task, sm, {"mean", "rms"}, {gain}))

PedestalOnline(sm) == << Pedestal("PedestalOnline", sm, "G12") >>

(* The second call for the PN diodes takes the path of the first one.      *)
Pedestals(sm) ==
  << Pedestal("Pedestal", sm, "G01"), Pedestal("Pedestal", sm, "G06"),
     Pedestal("Pedestal", sm, "G12"),
     Layout(<<"Pedestal", sm, "PNs", "0-Pedestal-PNs">>,
            Of("Pedestal", sm, {"quality"}, {"PNs G01", "PNs G16"})),
     Layout(<<"Pedestal", sm, "PNs", "0-Pedestal-PNs">>,
            Of("Pedestal", sm, {"PNs pedestal", "PNs rms"}, {"G01", "G16"})) >>

(* Slip: the folders of the gains are left out, as for the pedestals.      *)
TestPulseFlat(sm) ==
  LET pulse(gain) == Layout(<<"TestPulse", sm, gain, "0-TestPulse">>,
        {Quality("TestPulse", gain, sm)}
          \cup Of("TestPulse", sm, {"amplitude", "shape"}, {gain}))
      diodes(gain) == Layout(<<"TestPulse", sm, "PNs", "0-TestPulse-PNs">>,
        Of("TestPulse", sm, {"PNs pedestal", "PNs rms", "PNs amplitude"}, {gain}))
  IN << pulse("G01"), pulse("G06"), pulse("G12"),
        Layout(<<"TestPulse", sm, "PNs", "0-TestPulse-PNs">>,
               Of("TestPulse", sm, {"quality"}, {"PNs G01", "PNs G16"})),
        diodes("G01"), diodes("G16") >>

TestPulse(sm) ==
  LET pulse(gain) == Layout(<<"TestPulse", sm, gain, "0-TestPulse">>,
        {Quality("TestPulse", gain, sm)}
          \cup Of("TestPulse", sm, {"amplitude", "shape"}, {gain}))
      diodes(gain) == Layout(<<"TestPulse", sm, "PNs", gain, "0-TestPulse-PNs">>,
        Of("TestPulse", sm, {"PNs pedestal", "PNs rms", "PNs amplitude"}, {gain}))
  IN << pulse("G01"), pulse("G06"), pulse("G12"),
        Layout(<<"TestPulse", sm, "PNs", "0-TestPulse-PNs">>,
               Of("TestPulse", sm, {"quality"}, {"PNs G01", "PNs G16"})),
        diodes("G01"), diodes("G16") >>

(* The two lasers: of each its amplitudes, its times and its PN diodes.    *)
Laser(sm) ==
  LET beams(laser) == {laser \o "A", laser \o "B"}
      one(laser) ==
        << Layout(<<"Laser", sm, laser, "0-Laser">>,
                  Of("Laser", sm, {"amplitude", "amplitude over PN"}, beams(laser))),
           Layout(<<"Laser", sm, laser, "1-Laser">>,
                  Of("Laser", sm, {"timing", "shape"}, beams(laser))) >> \o
        [k \in 1 .. 2 |->
           Layout(<<"Laser", sm, laser, <<"2-Laser", "3-Laser">>[k]>>,
                  Of("Laser", sm, {"PNs pedestal", "PNs rms", "PNs amplitude"},
                     {laser \o <<" G01", " G16">>[k]}))]
  IN << Layout(<<"Laser", sm, "0-Laser">>, Of("Laser", sm, {"quality"}, {"L1", "L4"})),
        Layout(<<"Laser", sm, "1-Laser">>,
               Of("Laser", sm, {"quality"}, {"PNs L1 G01", "PNs L1 G16", "PNs L4 G01", "PNs L4 G16"})) >>
     \o one("L1") \o one("L4")

Timing(sm) ==
  << Layout(<<"Timing", sm, "0-Timing">>,
            {Quality("Timing", All, sm)} \cup Of("Timing", sm, {"timing"}, {All})),
     Layout(<<"Timing", sm, "1-Timing">>,
            {Quality("Timing", All, sm)} \cup Of("Timing", sm, {"mean", "rms"}, {All})) >>

Clusters ==
  LET cluster(name, whats) == Layout(<<"Cluster", name>>, Of("Cluster", All, whats, {All}))
  IN << cluster("0-Cluster", {"BC energy", "BC energy map"}),
        cluster("1-Cluster", {"BC number", "BC number map"}),
        cluster("2-Cluster", {"BC crystals", "BC size map"}),
        cluster("3-Cluster", {"SC energy", "SC energy map"}),
        cluster("4-Cluster", {"SC number", "SC number map"}),
        cluster("5-Cluster", {"SC size", "SC size map"}),
        cluster("6-Cluster", {"BC ET map", "SC ET map"}) >>

Supermodule(sm) ==
  Integrity(sm) \o PedestalOnline(sm) \o Pedestals(sm) \o TestPulse(sm)
    \o Laser(sm) \o Timing(sm)

eblayout ==
  Summaries \o FlattenSeq([k \in 1 .. Len(SetToSeq(Supermodules)) |->
                             Supermodule(SetToSeq(Supermodules)[k])]) \o Clusters

--------------------------------------------------------------------------------
(* The drift tubes, station by station; the fourth has two super layers.   *)
SuperLayers(station) == IF station = 4 THEN {1, 2} ELSE {1, 2, 3}

Signal(station) ==
  Layout(<<"Signal", station>>,
         {<<"Occupancies", 1, station>>}
           \cup {<<"TimeBoxes", l, station>> : l \in SuperLayers(station)})

LocalTrigger(station) ==
  Layout(<<"LocalTrigger", station>>,
         {<<"Phi", n, station>> : n \in 1 .. 3} \cup {<<"Theta", 1, station>>})

(* Of each layer its wires in each of the super layers.                    *)
OccupancyPerLayer(station) ==
  Layout(<<"OccupancyPerLayer", station>>,
         {<<"Occupancies", 4 * (s - 1) + layer + 1, station>> :
            s \in SuperLayers(station), layer \in 1 .. 4})

(* The read-out boards of a station, in two layouts.                       *)
Boards(station, half) ==
  LET first == 6 * (station - 1) + 3 * (half - 1)
  IN (first .. first + 2) \cup (IF station = 3 /\ half = 2 THEN {24} ELSE {})

IntegrityCheck(station, half) ==
  Layout(<<"IntegrityCheck", station, half>>,
         {"Occupancy", "TimeBox"} \X Boards(station, half) \X {10})

IntegritySummary ==
  Layout(<<"IntegrityCheck">>,
         {<<"FED", w, 770>> : w \in {"ROSSummary", "ROSStatus", "FIFOStatus"}}
           \cup {<<"SC", w, 10>> : w \in {"TriggerBX", "TriggerQuality"}}
           \cup {<<"ROS", "ROSError", 10>>})

dtlayout ==
  <<IntegritySummary>> \o [s \in 1 .. 4 |-> Signal(s)] \o [s \in 1 .. 4 |-> LocalTrigger(s)]
    \o [s \in 1 .. 4 |-> OccupancyPerLayer(s)]
    \o [k \in 1 .. 8 |-> IntegrityCheck((k + 1) \div 2, 2 - (k % 2))]

(* The first-level trigger.                                                *)
l1tlayout ==
  LET names == <<"GT Decision bit correlations", "GT FE Bx", "GT decision bits", "DTTF_quality",
                 "DTTF_eta_value", "DTTF_phi_value", "DTTF_ntrack">>
  IN [k \in DOMAIN names |-> Layout(<<"Summary", names[k]>>, {<<"L1T", names[k], All>>})]

--------------------------------------------------------------------------------
(* i[...] = DQMItem(layout=rows), call by call.                            *)
Registered(calls) ==
  FoldLeft(LAMBDA items, call :
             [p \in DOMAIN items \cup {call.path} |-> IF p = call.path THEN call.shows ELSE items[p]],
           [p \in {} |-> {}], calls)
=============================================================================
