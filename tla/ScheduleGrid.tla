---------------------------- MODULE ScheduleGrid ----------------------------
(* views/Schedules.vue, the windows in the form of a schedule: the list, the  *)
(* presets and the grid of hours that is painted with the mouse.  No call is  *)
(* made here.  Times are minutes, a day has HoursPerDay hours.                *)
EXTENDS Page, Integers, SequencesExt, FiniteSetsExt

\* Bounds: a short day, two days, windows in the list, edits of the list and drags.
HoursPerDay == 3
Days == {"Mon", "Sat"}
DayOrder == <<"Sat", "Mon">>
MaxWindows == 3
GridMaxEdits == 2

Hours == 0..(HoursPerDay - 1)
Midnight == 60 * HoursPerDay
LastMinute == Midnight - 1   \* 23:59, the latest time a field takes
Times == {60 * h : h \in Hours} \cup {30, LastMinute}

\* clock: the times read HH:MM.  The grid also writes hours like "8.5:00", which
\* the page reads and the node does not.
TimeWindow == [days : SUBSET Days, start : Nat, end : Nat, clock : BOOLEAN]
Window(days, start, end) == [days |-> days, start |-> start, end |-> end, clock |-> TRUE]
OneDay(w, day) == [w EXCEPT !.days = {day}]

GridTypeOK ==
    /\ \A k \in DOMAIN ui.windows : ui.windows[k] \in TimeWindow
    /\ {ui.isDragging, ui.dragMode} \subseteq BOOLEAN /\ ui.edits \in 0..GridMaxEdits

Wraps(w) == w.start > w.end

\* gridCellActive: the cell of an hour shows its first minute.
InWindow(minute, w) ==
    IF Wraps(w) THEN minute >= w.start \/ minute < w.end
    ELSE minute >= w.start /\ minute < w.end

GridCellActive(windows, day, hour) ==
    \E k \in DOMAIN windows : day \in windows[k].days /\ InWindow(60 * hour, windows[k])

Cells(windows) == {cell \in Days \X Hours : GridCellActive(windows, cell[1], cell[2])}

\* An hour to take off: a window that has it on that day loses the day, which
\* gets what is before and after the hour as windows of its own.
Covers(w, day, hour) ==
    /\ day \in w.days
    /\ 60 * hour >= w.start /\ 60 * hour < (IF w.end = 0 THEN Midnight ELSE w.end)

\* mutant: the day stays in the window that is split.
WithoutHourKept(w, day, hour) ==
    IF ~Covers(w, day, hour) THEN <<w>>
    ELSE <<w>>
      \o (IF 60 * hour > w.start THEN <<[OneDay(w, day) EXCEPT !.end = 60 * hour]>> ELSE <<>>)
      \o (IF 60 * (hour + 1) < w.end
          THEN <<[OneDay(w, day) EXCEPT !.start = 60 * (hour + 1)]>> ELSE <<>>)

WithoutHour(w, day, hour) ==
    IF ~Covers(w, day, hour) THEN <<w>>
    ELSE (IF w.days = {day} THEN <<>> ELSE <<[w EXCEPT !.days = @ \ {day}]>>)
      \o (IF 60 * hour > w.start THEN <<[OneDay(w, day) EXCEPT !.end = 60 * hour]>> ELSE <<>>)
      \o (IF 60 * (hour + 1) < (IF w.end = 0 THEN Midnight ELSE w.end)
          THEN <<[OneDay(w, day) EXCEPT !.start = 60 * (hour + 1)]>> ELSE <<>>)

EndOfHour(hour) == IF hour = HoursPerDay - 1 THEN LastMinute ELSE 60 * (hour + 1)

\* An hour to add: it extends the first window of that day alone it touches.
Touches(w, day, hour) ==
    w.days = {day} /\ (w.end = 60 * hour \/ w.start = EndOfHour(hour))

WithHour(windows, day, hour) ==
    IF \E k \in DOMAIN windows : Touches(windows[k], day, hour)
    THEN [windows EXCEPT ![SelectInSeq(windows, LAMBDA w : Touches(w, day, hour))] =
             IF @.end = 60 * hour THEN [@ EXCEPT !.end = EndOfHour(hour)]
             ELSE [@ EXCEPT !.start = 60 * hour]]
    ELSE Append(windows, Window({day}, 60 * hour, EndOfHour(hour)))

ToggleGridCell(windows, day, hour) ==
    IF GridCellActive(windows, day, hour)
    THEN FlattenSeq([k \in DOMAIN windows |-> WithoutHour(windows[k], day, hour)])
    ELSE WithHour(windows, day, hour)

SetGridCell(windows, day, hour, active) ==
    IF GridCellActive(windows, day, hour) = active THEN windows
    ELSE ToggleGridCell(windows, day, hour)

\* consolidateWindows: every hour a window counts from its start, up to its end.
HourStarts(windows, day) ==
    UNION {LET w == windows[k]
               end == IF w.end = LastMinute THEN Midnight ELSE w.end
           IN {m \in 0..Midnight : m >= w.start /\ m < end /\ (m - w.start) % 60 = 0}
           : k \in {j \in DOMAIN windows : day \in windows[j].days}}

\* mutant: a run ends where its last hour begins.
DayWindowsShort(windows, day) ==
    LET sorted == SetToSortSeq(HourStarts(windows, day), <)
        first == {k \in DOMAIN sorted : k = 1 \/ sorted[k] # sorted[k - 1] + 60}
        lastOf(k) == Max({j \in DOMAIN sorted : j >= k /\ sorted[j] = sorted[k] + 60 * (j - k)})
        starts == SetToSortSeq(first, <)
    IN [k \in DOMAIN starts |-> Window({day}, sorted[starts[k]], sorted[lastOf(starts[k])])]

\* The runs of hours that follow one another in the sorted list, as windows.
DayWindows(windows, day) ==
    LET sorted == SetToSortSeq(HourStarts(windows, day), <)
        first == {k \in DOMAIN sorted : k = 1 \/ sorted[k] # sorted[k - 1] + 60}
        lastOf(k) == Max({j \in DOMAIN sorted : j >= k /\ sorted[j] = sorted[k] + 60 * (j - k)})
        run(k) == LET end == sorted[lastOf(k)] + 60
                  IN [days |-> {day}, start |-> sorted[k],
                      end |-> IF end > Midnight - 60 THEN LastMinute ELSE end,
                      clock |-> sorted[k] % 60 = 0]
        starts == SetToSortSeq(first, <)
    IN [k \in DOMAIN starts |-> run(starts[k])]

ConsolidateWindows(windows) ==
    FlattenSeq([k \in DOMAIN DayOrder |-> DayWindows(windows, DayOrder[k])])

PRESETS ==
    [weekdays |-> Window({"Mon"}, 0, LastMinute), weekends |-> Window({"Sat"}, 0, LastMinute),
     bedtime |-> Window(Days, 120, 60), school |-> Window({"Mon"}, 60, 120),
     allweek |-> Window(Days, 0, LastMinute)]

-----------------------------------------------------------------------------

\* The form of a new schedule has one window without a day, that of another one
\* whatever is stored.
GridInit ==
    /\ page = "schedulegrid"
    /\ \E days \in SUBSET Days, start, end \in Times :
          ui = [windows |-> <<Window(days, start, end)>>, isDragging |-> FALSE,
                dragMode |-> TRUE, edits |-> 0]
    /\ srv = None /\ calls = {} /\ writes = 0 /\ crossed = FALSE

Edit(windows) ==
    /\ ui.edits < GridMaxEdits /\ Len(windows) <= MaxWindows /\ ~ui.isDragging
    /\ ui' = [ui EXCEPT !.windows = windows, !.edits = @ + 1]
    /\ Local

AddWindow == Edit(Append(ui.windows, Window({}, 0, 0)))
RemoveWindow(k) == Edit(RemoveAt(ui.windows, k))
ToggleDay(k, day) ==
    Edit([ui.windows EXCEPT ![k].days = IF day \in @ THEN @ \ {day} ELSE @ \cup {day}])
ApplyPreset(name) == Edit(<<PRESETS[name]>>)

\* The mouse goes down on a cell, over others, and up or out of the grid.
StartDrag(day, hour) ==
    /\ ~ui.isDragging /\ ui.edits < GridMaxEdits
    /\ LET mode == ~GridCellActive(ui.windows, day, hour) IN
       ui' = [ui EXCEPT !.isDragging = TRUE, !.dragMode = mode, !.edits = @ + 1,
                        !.windows = SetGridCell(@, day, hour, mode)]
    /\ Local

DoDrag(day, hour) ==
    /\ ui.isDragging
    /\ ui' = [ui EXCEPT !.windows = SetGridCell(@, day, hour, ui.dragMode)]
    /\ Local

StopDrag ==
    /\ ui.isDragging
    /\ ui' = [ui EXCEPT !.isDragging = FALSE, !.windows = ConsolidateWindows(@)]
    /\ Local

GridNext ==
    \/ AddWindow \/ StopDrag \/ \E name \in DOMAIN PRESETS : ApplyPreset(name)
    \/ \E k \in DOMAIN ui.windows : RemoveWindow(k) \/ \E day \in Days : ToggleDay(k, day)
    \/ \E day \in Days, hour \in Hours : StartDrag(day, hour) \/ DoDrag(day, hour)

-----------------------------------------------------------------------------

\* Windows on the hour that end on the day they begin, but for those without a
\* day.  The times of a new window are both 00:00: with a day, the grid shows
\* none of it and still takes its hours off, as if it ended at 24:00.
Plain(windows) ==
    \A k \in DOMAIN windows :
        LET w == windows[k] IN
        /\ w.days # {} => w.start < w.end
        /\ w.start % 60 = 0 /\ (w.end % 60 = 0 \/ w.end = LastMinute)

\* timeInWindow of the node, in the time zone of the node.
ScheduleActive(windows, day, minute) ==
    \E k \in DOMAIN windows :
        windows[k].clock /\ day \in windows[k].days /\ InWindow(minute, windows[k])

\* Over windows that are plain the mouse sets no cell but one, the way the drag
\* goes, however the windows overlap and whichever are of several days; and it
\* leaves the windows alone where there is no cell to change.
DragSetsOneCellStep ==
    ui'.isDragging /\ Plain(ui.windows)
        => LET before == Cells(ui.windows)
               after == Cells(ui'.windows)
               lost == before \ after
               gained == after \ before
           IN /\ IF ui'.dragMode THEN lost = {} /\ Cardinality(gained) <= 1
                                 ELSE gained = {} /\ Cardinality(lost) <= 1
              /\ before = after => ui'.windows = ui.windows

\* In every step.
DragSetsOneCell == [][DragSetsOneCellStep]_pageVars

\* Over windows that are plain letting go of the mouse changes no cell, leaves
\* no two windows of a day that overlap or touch, and what the node then makes of
\* them at any minute but the last is what the grid shows.
ReleaseKeepsCellsStep ==
    ui.isDragging /\ ~ui'.isDragging /\ Plain(ui.windows)
        => /\ Cells(ui'.windows) = Cells(ui.windows)
           /\ \A j, k \in DOMAIN ui'.windows :
                 j # k /\ ui'.windows[j].days = ui'.windows[k].days
                 => ui'.windows[j].end < ui'.windows[k].start
                    \/ ui'.windows[k].end < ui'.windows[j].start
           /\ \A day \in Days, hour \in Hours, late \in {0, 30, 58} :
                 ScheduleActive(ui'.windows, day, 60 * hour + late)
                 <=> GridCellActive(ui.windows, day, hour)

\* In every step.
ReleaseKeepsCells == [][ReleaseKeepsCellsStep]_pageVars

\* The same of any windows.  Not so: a window over midnight is gone after the
\* first drag, like the one of the bedtime preset.
ReleaseKeepsWindows ==
    [][ui.isDragging /\ ~ui'.isDragging
          => Cells(ui'.windows) = Cells(ui.windows)]_pageVars

\* What is left after a drag is what the node understands.  Not so: hours are
\* counted from the start of a window, and one that starts at half past leaves
\* times like "8.5:00".
ReleaseWritesClock ==
    ~ui.isDragging => \A k \in DOMAIN ui.windows : ui.windows[k].clock

=============================================================================
