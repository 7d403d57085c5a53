------------------------- MODULE MCSystemMonitorViewer -------------------------
(***************************************************************************)
(* Instance of SystemMonitorViewer for TLC.  Ordinals 1, 2 and 3 carry     *)
(* MemAvailable, SwapFree and CPU; 7 has no label.  Four logs: L1 out of   *)
(* time order, with two labels at 1000 and SwapFree missing at 1060 and   *)
(* MemAvailable at 20000; L2 with two CPU values at the same time and an  *)
(* entry cut short at the end; L3 with an unknown ordinal; L4 empty.  The  *)
(* requests cover every branch of ParseTimeRange and ranges ending before, *)
(* at and after the last entry, a reversed one and single time points.    *)
(***************************************************************************)
EXTENDS SystemMonitorViewer

E(t, o, v) == [ts |-> t, ord |-> o, val |-> v, ok |-> TRUE]
Cut == [ts |-> 0, ord |-> 0, val |-> "", ok |-> FALSE]

MCLogs ==
    { << E(1060, 1, "v1"), E(1000, 1, "v2"), E(1000, 2, "v1"), E(20000, 2, "v2") >>,
      << E(1000, 3, "v1"), E(1000, 3, "v2"), Cut >>,
      << E(1000, 1, "v1"), E(1060, 7, "v1") >>,
      << >> }

Q(k, n, u, s, e) == [kind |-> k, n |-> n, unit |-> u, start |-> s, end |-> e]

MCRequests ==
    { Q("last", 1, "day", 0, 0), Q("last", 1, "hour", 0, 0), Q("last", 2, "fortnight", 0, 0),
      Q("point", 0, "", 1000, 0), Q("point", 0, "", 1030, 0),
      Q("range", 0, "", 1000, 1060), Q("range", 0, "", 1030, 30000),
      Q("range", 0, "", 20000, 1000), Q("bad", 0, "", 0, 0) }

MCMetricLabels ==
    [m \in {"mem", "cpu", "disk"} |->
        CASE m = "mem" -> << "MemAvailable", "Unevictable", "SwapFree" >>
          [] m = "cpu" -> << "CPU" >>
          [] OTHER     -> << >>]

MCLabelOf == 1 :> "MemAvailable" @@ 2 :> "SwapFree" @@ 3 :> "CPU"
=============================================================================
