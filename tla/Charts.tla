--------------------------------- MODULE Charts ---------------------------------
(***************************************************************************)
(* What the charts of the overview draw (Core/Plot.py): the rectangles,    *)
(* surfaces, slices and wedges a chart is made of, the entries of its      *)
(* legend and where they go.  Colours, fonts and titles are left out, and  *)
(* lengths are in the units of the data.  A key is a sequence, and the     *)
(* empty one the key None; data is a sequence, by interval of the time     *)
(* series, of functions from keys to numbers.                              *)
(***************************************************************************)
EXTENDS Integers, Sequences, FiniteSetsExt, SequencesExt

NoKey == <<>>

Total(f, S) == MapThenSumSet(LAMBDA x : f[x], S)

(* The values of a key over all intervals.                                 *)
Integral(data, key) ==
  MapThenSumSet(LAMBDA i : data[i][key], {i \in DOMAIN data : key \in DOMAIN data[i]})

Seen(data) == UNION {DOMAIN data[i] : i \in DOMAIN data}

(* sorted() by the integrals, stable; in reverse too.                      *)
Before(data, legend, i, j) ==
  LET a == Integral(data, legend[i])
      b == Integral(data, legend[j])
  IN a < b \/ (a = b /\ i < j)
Rising(data, legend) ==
  LET order == SetToSortSeq(DOMAIN legend, LAMBDA i, j : Before(data, legend, i, j))
  IN [i \in DOMAIN order |-> legend[order[i]]]
Falling(data, legend) ==
  LET Above(i, j) ==
        LET a == Integral(data, legend[i])
            b == Integral(data, legend[j])
        IN a > b \/ (a = b /\ i < j)
      order == SetToSortSeq(DOMAIN legend, Above)
  IN [i \in DOMAIN order |-> legend[order[i]]]

--------------------------------------------------------------------------------
(* TimeSeriesBarChart.draw: in each interval, the items of the legend that *)
(* have data, one upon the other.                                          *)
Items(data, legend, sorted) == IF sorted THEN Rising(data, legend) ELSE legend

Bars(data, legend, sorted) ==
  [i \in DOMAIN data |->
     LET drawn == SelectSeq(Items(data, legend, sorted), LAMBDA k : k \in DOMAIN data[i])
     IN [j \in DOMAIN drawn |->
           [key |-> drawn[j], height |-> data[i][drawn[j]],
            bottom |-> MapThenSumSet(LAMBDA m : data[i][drawn[m]], 1 .. j - 1)]]]

(* The image map has an area for each value above 0: it needs its bar, and *)
(* there is none for a key that the legend has not.                        *)
MapDrawn(data, legend) ==
  \A i \in DOMAIN data : \A k \in DOMAIN data[i] :
    data[i][k] > 0 => k \in {legend[j] : j \in DOMAIN legend}

--------------------------------------------------------------------------------
(* CumulativeTimeSeriesChart.draw: surfaces one upon the other, each the   *)
(* sum of a key so far; the first is the axis.                             *)
RECURSIVE Stacked(_, _, _)
Stacked(data, keys, below) ==
  IF keys = <<>> THEN <<below>>
  ELSE LET SoFar(i) == Integral(SubSeq(data, 1, i), Head(keys))
           cur == [i \in 0 .. Len(data) |-> IF i = 0 THEN 0 ELSE below[i] + SoFar(i)]
       IN <<below>> \o Stacked(data, Tail(keys), cur)

Surfaces(data, legend, sorted) ==
  Stacked(data, Items(data, legend, sorted), [i \in 0 .. Len(data) |-> 0])

--------------------------------------------------------------------------------
(* The entries of the legend of both: the items that have data.            *)
_getLegend(data, legend, sorted) ==
  LET shown == SelectSeq(legend, LAMBDA k : k # NoKey /\ k \in Seen(data))
  IN IF sorted THEN Falling(data, shown) ELSE shown

(* LegendChart.legend: no more than max_legend entries, with a remark in   *)
(* place of the others; the remark is the entry NoKey.                     *)
Truncated(entries, max) ==
  IF Len(entries) >= max THEN Append(SubSeq(entries, 1, max), NoKey) ELSE entries

(* Slip: the rows are counted as if the division left nothing over.        *)
RowsFew(n, columns) == (n + 1) \div columns

Rows(n, columns) == (n + 1 + columns - 1) \div columns

(* Column and row of the n-th entry, counted from 0, when so many columns  *)
(* fit the width of the image.                                             *)
Place(i, n, columns) ==
  [column |-> (i - 1) \div Rows(n, columns), row |-> (i - 1) % Rows(n, columns)]

--------------------------------------------------------------------------------
(* PieChart: data is a function from names to values.  A slice has the     *)
(* colour of the item of its name in the legend, and each item of the      *)
(* legend shows the value of its name: both are needed.                    *)
PieDrawn(data, legend) == DOMAIN data = {legend[i] : i \in DOMAIN legend}

Slices(data) ==
  LET order == SetToSortSeq(DOMAIN data, LAMBDA a, b : data[a] < data[b])
  IN [i \in DOMAIN order |->
        [key |-> order[i], from |-> MapThenSumSet(LAMBDA m : data[order[m]], 1 .. i - 1),
         value |-> data[order[i]]]]

--------------------------------------------------------------------------------
(* BaobabChart.draw.  A node of the tree has a name, a value and children. *)
(* Angles are in units of the data: the whole circle is the value of the   *)
(* root.  A child too thin to be seen is put with others of its kind at    *)
(* the end: its wedge has no name of its own, and is lower.  A child is    *)
(* seen if it has more than min(9 / (depth + 1)^2, 1) degrees.             *)
Seeable(value, depth, root) ==
  IF (depth + 1) * (depth + 1) < 9 THEN value * 360 > root
  ELSE value * 360 * (depth + 1) * (depth + 1) > 9 * root

(* Slip: only the one before is counted.                                   *)
BeginsSoon(start, seen, i) == IF i = 1 THEN start ELSE start + seen[i - 1].value

(* The children are drawn in turn, the next where the last one ended.      *)
Begins(start, seen, i) == start + MapThenSumSet(LAMBDA m : seen[m].value, 1 .. i - 1)

RECURSIVE Wedges(_, _, _, _)
Wedges(here, depth, start, root) ==
  LET children == here.children
      seen == SelectSeq(children, LAMBDA c : Seeable(c.value, depth, root))
      thin == SelectSeq(children, LAMBDA c : ~Seeable(c.value, depth, root))
      dumped == MapThenSumSet(LAMBDA m : thin[m].value, DOMAIN thin)
      own == [name |-> here.name, left |-> start, width |-> here.value, bottom |-> depth,
              low |-> FALSE]
      rest == [name |-> here.name, left |-> Begins(start, seen, Len(seen) + 1), width |-> dumped,
               bottom |-> depth + 1, low |-> TRUE]
  IN {own} \cup (IF dumped > 0 THEN {rest} ELSE {})
           \cup UNION {Wedges(seen[i], depth + 1, Begins(start, seen, i), root) : i \in DOMAIN seen}

--------------------------------------------------------------------------------
(* RateQualityScatterChart: the bubbles are lettered as they are drawn,    *)
(* and the legend is numbered by itself; data is a function of keys.       *)
Letters(data, legend) == SelectSeq(legend, LAMBDA k : k \in DOMAIN data)
Numbers(data, legend) == SelectSeq(legend, LAMBDA k : k # NoKey /\ k \in DOMAIN data)

(* LatencyDensityMap: by key, in a column of so many bins and one, the     *)
(* number of blocks; a bin beyond them fails.                              *)
ColumnFits(column, bins) == DOMAIN column \subseteq 0 .. bins
================================================================================
