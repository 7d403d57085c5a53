------------------------- MODULE SystemMonitorViewer -------------------------
(***************************************************************************)
(* system_monitor_viewer (src/cpp/system_monitor_viewer.cc).  Main parses  *)
(* the time range and the metric, loads the binary log of the             *)
(* system_monitor service (timestamp, ordinal, value per entry) into a     *)
(* vector of Datapoints sorted by timestamp, picks the part of it inside   *)
(* the range with lower_bound/upper_bound, and then either logs the values *)
(* of the data point closest to a single time point, or writes one         *)
(* tab-separated line per distinct timestamp (WritePlotDataToDisk) and     *)
(* hands the file to gnuplot.                                              *)
(*                                                                         *)
(* Times are time_t values; the strings of the time range are abstracted   *)
(* to the time_t that ParseTimestamp and mktime make of them.  A line of   *)
(* the plot file is [ts, x, cols]: the timestamp it is for, the scaled     *)
(* timestamp of its first column as an exact fraction [num, den], and the  *)
(* value written in the column of each label ("" for an empty column).    *)
(***************************************************************************)
EXTENDS Integers, Sequences, SequencesExt

CONSTANTS
    Now,            \* std::time(nullptr)
    Requests,       \* the time_range arguments, as records (see ParseTimeRange)
    Metrics,        \* the metric arguments
    MetricLabels,   \* GetLabelsForCoarseMetric: metric -> label sequence
    LabelOf,        \* the "Label Ordinals" of system_monitor.conf: ordinal -> label
    Logs,           \* log files, as sequences of entries [ts, ord, val, ok]
    Values          \* std::to_string of the logged values

BAD_TIME_T == -1

(* Unit lengths in seconds of the "last <n> <unit>" ranges. *)
UnitSeconds == [hour |-> 3600, day |-> 24 * 3600, week |-> 7 * 24 * 3600,
                month |-> 30 * 24 * 3600]

VARIABLES
    req, metric, log,
    pc,             \* "parse", "labels", "load", "sort", "range", "print",
                    \* "write", "done", "nodata", "error" or "crash"
    time_start, time_end,
    labels,
    li,             \* the next log entry read
    data,           \* log_data
    begin, end,     \* data_range_start, data_range_end (Len(data) + 1 is end())
    unit,           \* time_window_unit
    itr,            \* the iterator of WritePlotDataToDisk
    cur_ts,         \* current_write_timestamp
    cur_vals,       \* current_write_timestamp_values: label -> value or ""
    lines,          \* the lines written to the plot data file
    printed         \* the datapoints LOG_INFO has printed in single-point mode

vars == <<req, metric, log, pc, time_start, time_end, labels, li, data, begin,
          end, unit, itr, cur_ts, cur_vals, lines, printed>>

AllLabels == {LabelOf[o] : o \in DOMAIN LabelOf}

NoValues == [l \in AllLabels |-> ""]

(* ParseTimeRange: "last n unit" is now minus n units (the code forms the *)
(* product in unsigned int; the n of the requests keep it below 2^32); a  *)
(* single time point leaves time_end at BAD_TIME_T; a                     *)
(* start that mktime rejects, a range that does not split into two        *)
(* timestamps, and an unknown unit are errors.                             *)
ParseTimeRange ==
    /\ pc = "parse"
    /\ CASE req.kind = "last" /\ req.unit \in DOMAIN UnitSeconds ->
                /\ time_start' = Now - req.n * UnitSeconds[req.unit]
                /\ time_end' = Now
                /\ pc' = "labels"
         [] req.kind = "point" /\ req.start # BAD_TIME_T ->
                /\ time_start' = req.start
                /\ time_end' = BAD_TIME_T
                /\ pc' = "labels"
         [] req.kind = "range" /\ req.start # BAD_TIME_T ->
                /\ time_start' = req.start
                /\ time_end' = req.end
                /\ pc' = "labels"
         [] OTHER -> pc' = "error" /\ UNCHANGED <<time_start, time_end>>
    /\ UNCHANGED <<req, metric, log, labels, li, data, begin, end, unit, itr,
                   cur_ts, cur_vals, lines, printed>>

GetLabelsForCoarseMetric ==
    /\ pc = "labels"
    /\ IF metric \in DOMAIN MetricLabels
       THEN labels' = MetricLabels[metric] /\ pc' = "load"
       ELSE pc' = "error" /\ UNCHANGED labels
    /\ UNCHANGED <<req, metric, log, time_start, time_end, li, data, begin,
                   end, unit, itr, cur_ts, cur_vals, lines, printed>>

(* One iteration of the while loop of LoadSystemMonitorLog: an entry cut   *)
(* short by the end of the file is skipped with a warning, an ordinal      *)
(* without label is an error.                                              *)
LoadEntry ==
    /\ pc = "load"
    /\ li <= Len(log)
    /\ LET e == log[li] IN
       CASE ~e.ok -> li' = li + 1 /\ UNCHANGED <<pc, data>>
         [] e.ord \notin DOMAIN LabelOf -> pc' = "error" /\ UNCHANGED <<li, data>>
         [] OTHER -> /\ data' = Append(data, [label |-> LabelOf[e.ord], ts |-> e.ts, val |-> e.val])
                     /\ li' = li + 1
                     /\ UNCHANGED pc
    /\ UNCHANGED <<req, metric, log, time_start, time_end, labels, begin, end,
                   unit, itr, cur_ts, cur_vals, lines, printed>>

(* Datapoint::operator< compares timestamps only. *)
ByTimestamp(a, b) == a.ts <= b.ts

(* std::sort is not stable: datapoints with equal timestamps may end up in *)
(* any order.                                                              *)
SortedOrders(d) ==
    {p \in {[i \in 1..Len(d) |-> d[f[i]]] : f \in Bijection(1..Len(d), 1..Len(d))} :
        IsSorted(p, ByTimestamp)}

(* Mutant: the log data is left in file order. *)
LoadDoneUnsorted ==
    /\ pc = "load"
    /\ li > Len(log)
    /\ pc' = "range"
    /\ UNCHANGED <<req, metric, log, time_start, time_end, labels, li, data,
                   begin, end, unit, itr, cur_ts, cur_vals, lines, printed>>

(* The end of the file: the trailing std::sort of LoadSystemMonitorLog. *)
LoadDone ==
    /\ pc = "load"
    /\ li > Len(log)
    /\ data' \in SortedOrders(data)
    /\ pc' = "range"
    /\ UNCHANGED <<req, metric, log, time_start, time_end, labels, li, begin,
                   end, unit, itr, cur_ts, cur_vals, lines, printed>>

(* std::lower_bound and std::upper_bound on the sorted data. *)
LowerBound(d, t) ==
    LET is == {i \in 1..Len(d) : d[i].ts >= t} IN IF is = {} THEN Len(d) + 1 ELSE Min(is)

UpperBound(d, t) ==
    LET is == {i \in 1..Len(d) : d[i].ts > t} IN IF is = {} THEN Len(d) + 1 ELSE Min(is)

(* GetDataRange moves an end() result back onto the last element. *)
RangeEnd(d, t) ==
    IF UpperBound(d, t) = Len(d) + 1 /\ Len(d) > 0 THEN Len(d) ELSE UpperBound(d, t)

(* CalculateBestTimeScale: the largest unit whose threshold the span exceeds. *)
BestTimeScale(s, e) ==
    LET diff == e - s IN
    CASE diff > 2 * 30 * 24 * 3600 -> "MONTH"
      [] diff > 2 * 7 * 24 * 3600  -> "WEEK"
      [] diff > 5 * 24 * 3600      -> "DAY"
      [] diff > 5 * 3600           -> "HOUR"
      [] diff > 2 * 60             -> "MINUTE"
      [] OTHER                     -> "SECOND"

(* Mutant: Main goes on without the check that data was found. *)
SelectRangeUnchecked ==
    /\ pc = "range"
    /\ LET b == LowerBound(data, time_start)
           e == RangeEnd(data, time_end)
       IN  /\ begin' = b /\ end' = e /\ itr' = b
           /\ unit' = IF b <= Len(data) THEN BestTimeScale(data[b].ts, data[e].ts) ELSE unit
           /\ pc' = IF time_end = BAD_TIME_T THEN "print" ELSE "write"
    /\ UNCHANGED <<req, metric, log, time_start, time_end, labels, li, data,
                   cur_ts, cur_vals, lines, printed>>

(* Main from GetDataRange to the check that data was found.  The time scale *)
(* is computed from *data_range_start before that check: with no data at   *)
(* or after the start it reads past the end of log_data, and the value is  *)
(* dropped by the LOG_ERROR that follows.                                   *)
SelectRange ==
    /\ pc = "range"
    /\ LET b == LowerBound(data, time_start)
           e == RangeEnd(data, time_end)
       IN  IF b = Len(data) + 1
           THEN pc' = "error" /\ UNCHANGED <<begin, end, unit, itr>>
           ELSE /\ begin' = b /\ end' = e /\ itr' = b
                /\ unit' = BestTimeScale(data[b].ts, data[e].ts)
                /\ pc' = IF time_end = BAD_TIME_T THEN "print" ELSE "write"
    /\ UNCHANGED <<req, metric, log, time_start, time_end, labels, li, data,
                   cur_ts, cur_vals, lines, printed>>

(* The single-point loop of Main: it logs *data_range_start while its      *)
(* timestamp is the first one's, and never advances data_range_start.      *)
PrintClosest ==
    /\ pc = "print"
    /\ begin # Len(data) + 1
    /\ printed' = printed \cup {data[begin]}
    /\ UNCHANGED <<req, metric, log, pc, time_start, time_end, labels, li,
                   data, begin, end, unit, itr, cur_ts, cur_vals, lines>>


(* GetScaledTimestamp as a fraction [num, den].  DAY, WEEK and MONTH      *)
(* divide by the day count and then multiply by the seconds of a day, as   *)
(* the code's operator precedence has it; SECOND gives the timestamp.      *)
Scaled(ts, first, u) ==
    LET d == ts - first IN
    CASE u = "SECOND" -> [num |-> ts, den |-> 1]
      [] u = "MINUTE" -> [num |-> d, den |-> 60]
      [] u = "HOUR"   -> [num |-> d, den |-> 3600]
      [] u = "DAY"    -> [num |-> d * 3600, den |-> 24]
      [] u = "WEEK"   -> [num |-> d * 24 * 3600, den |-> 7]
      [] OTHER        -> [num |-> d * 24 * 3600, den |-> 30]

(* The out_line for current_write_timestamp: a column per label, empty    *)
(* when the map has no value for the label.                              *)
Column(l) == IF l \in AllLabels THEN cur_vals[l] ELSE ""

OutLine(ts) ==
    [ts |-> ts, x |-> Scaled(ts, data[begin].ts, unit),
     cols |-> [c \in 1..Len(labels) |-> Column(labels[c])]]

(* Mutant: the values are cleared when a new timestamp starts. *)
WriteStepClearing ==
    /\ pc = "write"
    /\ itr # end
    /\ IF itr > Len(data) THEN pc' = "crash" /\ UNCHANGED <<itr, cur_ts, cur_vals, lines>>
       ELSE LET dp == data[itr]
                fresh == cur_ts # dp.ts
            IN
            /\ lines' = IF fresh /\ cur_vals # NoValues
                        THEN Append(lines, OutLine(cur_ts)) ELSE lines
            /\ cur_ts' = dp.ts
            /\ cur_vals' = [IF fresh THEN NoValues ELSE cur_vals EXCEPT ![dp.label] = dp.val]
            /\ itr' = itr + 1
            /\ UNCHANGED pc
    /\ UNCHANGED <<req, metric, log, time_start, time_end, labels, li, data,
                   begin, end, unit, printed>>

(* One iteration of the for loop of WritePlotDataToDisk.  A datapoint of   *)
(* the current timestamp only sets its label's value; one of a new         *)
(* timestamp first writes the line of the current one, and the values of   *)
(* the map are kept.  An iterator run past end() (a range whose start lies *)
(* after its end) dereferences memory past log_data: the program crashes.  *)
WriteStep ==
    /\ pc = "write"
    /\ itr # end
    /\ IF itr > Len(data) THEN pc' = "crash" /\ UNCHANGED <<itr, cur_ts, cur_vals, lines>>
       ELSE LET dp == data[itr] IN
            /\ lines' = IF cur_ts # dp.ts /\ cur_vals # NoValues
                        THEN Append(lines, OutLine(cur_ts)) ELSE lines
            /\ cur_ts' = dp.ts
            /\ cur_vals' = [cur_vals EXCEPT ![dp.label] = dp.val]
            /\ itr' = itr + 1
            /\ UNCHANGED pc
    /\ UNCHANGED <<req, metric, log, time_start, time_end, labels, li, data,
                   begin, end, unit, printed>>

(* The line written after the loop, and Main's choice between the "found  *)
(* no data" warning and DisplayPlot on the number of lines written.        *)
WriteDone ==
    /\ pc = "write"
    /\ itr = end
    /\ lines' = IF cur_vals # NoValues THEN Append(lines, OutLine(cur_ts)) ELSE lines
    /\ pc' = IF lines' = <<>> THEN "nodata" ELSE "done"
    /\ UNCHANGED <<req, metric, log, time_start, time_end, labels, li, data,
                   begin, end, unit, itr, cur_ts, cur_vals, printed>>

Init ==
    /\ req \in Requests /\ metric \in Metrics /\ log \in Logs
    /\ pc = "parse"
    /\ time_start = 0 /\ time_end = 0
    /\ labels = <<>>
    /\ li = 1 /\ data = <<>>
    /\ begin = 1 /\ end = 1 /\ unit = "SECOND" /\ itr = 1
    /\ cur_ts = BAD_TIME_T /\ cur_vals = NoValues
    /\ lines = <<>> /\ printed = {}

Next ==
    \/ ParseTimeRange \/ GetLabelsForCoarseMetric
    \/ LoadEntry \/ LoadDone
    \/ SelectRange \/ PrintClosest
    \/ WriteStep \/ WriteDone

(* Main is one sequential thread: every step it can take is eventually taken. *)
Spec == Init /\ [][Next]_vars /\ WF_vars(Next)
-----------------------------------------------------------------------------
Units == {"SECOND", "MINUTE", "HOUR", "DAY", "WEEK", "MONTH"}

TypeOK ==
    /\ pc \in {"parse", "labels", "load", "range", "print", "write", "done",
               "nodata", "error", "crash"}
    /\ li \in 1..Len(log) + 1
    /\ data \in Seq([label : AllLabels, ts : Int, val : Values])
    /\ Len(data) <= Len(log)
    /\ unit \in Units
    /\ cur_vals \in [AllLabels -> Values \cup {""}]
    /\ pc \in {"write", "done", "nodata"} => begin \in 1..Len(data) /\ itr \in begin..Len(data) + 1
    /\ printed \subseteq Range(data)


(* The value the column of label l holds in the line for time t: that of   *)
(* the last datapoint of l at or before t among those the loop has passed. *)
LatestValue(l, t) ==
    LET js == {j \in begin..itr - 1 : j <= Len(data) /\ data[j].label = l /\ data[j].ts <= t}
    IN  IF js = {} THEN "" ELSE data[Max(js)].val

(* current_write_timestamp_values is never cleared, so a label without a   *)
(* datapoint at a line's timestamp shows its latest earlier value in the  *)
(* range.  Every column of every line written holds exactly that value,   *)
(* and the same datapoint order decides ties as in the sorted log_data.   *)
LinesCarryLatestValue ==
    pc \in {"write", "done", "nodata"} =>
        \A k \in 1..Len(lines) : \A c \in 1..Len(labels) :
            lines[k].cols[c] = LatestValue(labels[c], lines[k].ts)

(* The timestamps of the entries of the log file that LoadSystemMonitorLog *)
(* keeps.                                                                 *)
LoggedTimes == {log[i].ts : i \in {j \in 1..Len(log) : log[j].ok /\ log[j].ord \in DOMAIN LabelOf}}

(* A plot Main hands to gnuplot has one line per timestamp, in increasing *)
(* time order, and every one is the time of an entry of the log inside the *)
(* requested range: this rests on the sort of LoadSystemMonitorLog, the   *)
(* bounds of GetDataRange and the grouping of WritePlotDataToDisk.        *)
PlotLinesInRange ==
    pc = "done" =>
        /\ IsSorted([k \in 1..Len(lines) |-> lines[k].ts], <)
        /\ \A k \in 1..Len(lines) :
               lines[k].ts \in LoggedTimes /\ time_start <= lines[k].ts /\ lines[k].ts <= time_end

(* Main returns: it ends with a plot, the "no data" warning or an error,  *)
(* whatever the request.  The single-point loop of Main never advances    *)
(* data_range_start, so TLC finds this violated by every point request    *)
(* with data at or after its time (MCSystemMonitorViewerHang.cfg).        *)
MainReturns == <>(pc \in {"done", "nodata", "error", "crash"})

(* The usage line: the plot shows the data of the time range.  Every      *)
(* timestamp of the log inside the requested range gets a line.  TLC finds *)
(* this violated when the range reaches the last entry of the log: the    *)
(* end() iterator GetDataRange moves back onto that entry is then used as *)
(* the exclusive end of the loop (MCSystemMonitorViewerCover.cfg).        *)
PlotCoversRange ==
    pc \in {"done", "nodata"} =>
        {lines[k].ts : k \in 1..Len(lines)} =
            {t \in LoggedTimes : time_start <= t /\ t <= time_end}

=============================================================================
