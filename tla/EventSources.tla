---------------------------- MODULE EventSources ---------------------------
(***************************************************************************)
(* The collectors of a cycle that bring no metrics: LogEventCollector      *)
(* parses kernel messages into XID events (collectors_logs.go),            *)
(* ProcLinkCollector reads the PCIe links from sysfs (collectors_proc.go)  *)
(* while they change, NCCLLogCollector takes the size of the log the job   *)
(* writes and then reads its end (collectors_nccl.go).  They keep nothing  *)
(* from one Collect to the next and share nothing, so a behaviour is one   *)
(* Collect of one.                                                         *)
(***************************************************************************)
EXTENDS Integers, Sequences, FiniteSets, SequencesExt

CONSTANTS
    KmsgTexts,       \* the texts a drain of /dev/kmsg may yield
    Numbers, Gpus,   \* the tokens that are a number, and a GPU UUID
    Devices, NVIDIA, \* PCI devices in the directory, and those of NVIDIA
    Widths, MaxWidth, Speeds, MaxSpeed,   \* of links, now and at best
    NcclLines,       \* the lines a job may log
    ncclMaxBytes,    \* the read cap, in the unit of line lengths
    MaxLine,         \* the longest line a Scanner takes
    MaxLines, MaxChanges  \* bounds: lines of the log, link changes per scan

ASSUME TextAssumption ==
    \A t \in KmsgTexts :
        /\ Len(t) \in Nat /\ DOMAIN t = 1..Len(t)
        /\ \A i \in DOMAIN t : t[i].cont \in BOOLEAN /\ t[i].tokens \in Seq(STRING)
ASSUME LineAssumption == \A l \in NcclLines : l.len \in Nat \ {0}

ASSUME CapAssumption == ncclMaxBytes \in Nat \ {0} /\ MaxLine \in Nat \ {0}
ASSUME DeviceAssumption == Devices \in Nat \ {0} /\ NVIDIA \subseteq 1..Devices
ASSUME BestAssumption == MaxWidth \in Nat \ {0} /\ MaxSpeed \in Nat \ {0}
ASSUME BoundAssumption == MaxLines \in Nat /\ MaxChanges \in Nat

VARIABLES
    collector, \* the one that runs: "LogEvent", "ProcLink", "NCCLLog"
    pc,        \* "collect", "read" of a log whose size is known, "done"
    text,      \* the kernel text it parsed
    xidEvents, \* the events parsed from it
    addr,      \* ProcLinkCollector: the device it is at, and the attribute
    check,     \*   it looks at: "lost", "width", "speed"
    link,      \* the link of each device now
    legs,      \* the legs of this scan: kind and device
    had,       \* the states each link had since the scan started
    changes,   \* link changes since then
    ncclLog,   \* the lines of the log file, with the offsets they span
    ncclStat,  \* how many it held when its size was taken
    ncclRead,  \* what the read took of them, by line
    ncclEvents \* the events parsed from that, by line

logs == <<text, xidEvents>>
proc == <<addr, check, legs, had, changes, link>>
nccl == <<ncclLog, ncclStat, ncclRead, ncclEvents>>
vars == <<collector, pc, logs, proc, nccl>>

None == "none"
Unreadable == -1

Links == [width : Widths \cup {Unreadable}, speed : Speeds \cup {Unreadable}]
NoLink == [width |-> Unreadable, speed |-> Unreadable]
Addrs == 1..Devices   \* in the order the directory is read

Running(c) == collector = c /\ pc = "collect"

Init ==
    /\ collector \in {"LogEvent", "ProcLink", "NCCLLog"} /\ pc = "collect"
    /\ text = <<>> /\ xidEvents = <<>>
    /\ addr = 1 /\ check = "lost"
    /\ link \in [Addrs -> Links]
    /\ collector = "ProcLink" \/ link = [a \in Addrs |-> NoLink]
    /\ legs = {} /\ had = [a \in Addrs |-> {link[a]}] /\ changes = 0
    /\ ncclLog = <<>> /\ ncclStat = 0 /\ ncclRead = <<>> /\ ncclEvents = <<>>

-----------------------------------------------------------------------------
(* LogEventCollector.  A kernel line is the sequence of its tokens, "Xid"  *)
(* standing for "Xid (PCI:...):"; a continuation line starts with a blank. *)
XidAt(raw, i) == i < Len(raw) /\ raw[i] = "Xid" /\ raw[i + 1] \in Numbers

emit(raw) ==
    LET hits == {i \in 1..Len(raw) : XidAt(raw, i)}
        gpus == {i \in 1..Len(raw) : raw[i] \in Gpus}
    IN  IF hits = {} THEN <<>>
        ELSE << [xid |-> raw[Min(hits) + 1],
                 dev |-> IF gpus = {} THEN None ELSE raw[Min(gpus)]] >>

(* Mutant: a continuation line starts a record of its own.                 *)
scanLine_NoFold(s, line) ==
    [s EXCEPT !.events = IF s.have THEN s.events \o emit(s.rec) ELSE s.events,
              !.rec = line.tokens, !.have = TRUE]

(* One line: a continuation belongs to the record it follows, and is       *)
(* dropped when it follows none; any other line ends that record.          *)
scanLine(s, line) ==
    IF line.cont
    THEN IF s.have THEN [s EXCEPT !.rec = s.rec \o line.tokens] ELSE s
    ELSE [rec |-> line.tokens, have |-> TRUE,
          events |-> IF s.have THEN s.events \o emit(s.rec) ELSE s.events]

parseKmsgXID(lines) ==
    LET scan[i \in 0..Len(lines)] ==
            IF i = 0 THEN [rec |-> <<>>, have |-> FALSE, events |-> <<>>]
            ELSE scanLine(scan[i - 1], lines[i])
        s == scan[Len(lines)]
    IN  IF s.have THEN s.events \o emit(s.rec) ELSE s.events

Collect_Logs(lines) ==
    /\ Running("LogEvent")
    /\ text' = lines /\ xidEvents' = parseKmsgXID(lines)
    /\ pc' = "done"
    /\ UNCHANGED <<collector, proc, nccl>>

-----------------------------------------------------------------------------
(* ProcLinkCollector.  Each check reads the files it needs again; the      *)
(* maxima are those of the slot and do not change, and where a maximum     *)
(* cannot be read the check yields what it does on an Unreadable link.     *)
NextDevice ==
    /\ check' = "lost"
    /\ IF addr < Devices
       THEN addr' = addr + 1 /\ UNCHANGED pc
       ELSE pc' = "done" /\ UNCHANGED addr

(* Mutant: the other checks run although a leg was emitted.                *)
Verdict_NoContinue(found, leg, otherwise) ==
    /\ legs' = IF found THEN legs \cup {<<leg, addr>>} ELSE legs
    /\ IF otherwise = "next device" THEN NextDevice
       ELSE check' = otherwise /\ UNCHANGED <<pc, addr>>

(* Mutant: a leg ends the whole scan.                                      *)
Verdict_Break(found, leg, otherwise) ==
    /\ legs' = IF found THEN legs \cup {<<leg, addr>>} ELSE legs
    /\ IF found THEN pc' = "done" /\ UNCHANGED <<addr, check>>
       ELSE IF otherwise = "next device" THEN NextDevice
       ELSE check' = otherwise /\ UNCHANGED <<pc, addr>>

(* A leg ends the device; otherwise the next check is made.                *)
Verdict(found, leg, otherwise) ==
    /\ legs' = IF found THEN legs \cup {<<leg, addr>>} ELSE legs
    /\ IF found \/ otherwise = "next device" THEN NextDevice
       ELSE check' = otherwise /\ UNCHANGED <<pc, addr>>

Scan(c) ==
    /\ Running("ProcLink") /\ check = c
    /\ UNCHANGED <<collector, logs, had, changes, link, nccl>>

(* Mutant: any device with a dead link is a lost GPU.                      *)
IsLost_AnyVendor(a) == link[a].width = 0

IsLost(a) == a \in NVIDIA /\ link[a].width = 0

Check_Lost == Scan("lost") /\ Verdict(IsLost(addr), "device.lost", "width")

Check_Width ==
    /\ Scan("width")
    /\ Verdict(link[addr].width > 0 /\ link[addr].width < MaxWidth,
               "link.degraded.width", "speed")

Check_Speed ==
    /\ Scan("speed")
    /\ Verdict(link[addr].speed > 0 /\ link[addr].speed < MaxSpeed,
               "link.degraded.speed", "next device")

(* A link retrains, dies or comes back, or its directory goes away.        *)
LinkChanges(a, l) ==
    /\ Running("ProcLink") /\ changes < MaxChanges /\ l # link[a]
    /\ link' = [link EXCEPT ![a] = l]
    /\ had' = [had EXCEPT ![a] = @ \cup {l}]
    /\ changes' = changes + 1
    /\ UNCHANGED <<collector, pc, logs, addr, check, legs, nccl>>

-----------------------------------------------------------------------------
(* NCCLLogCollector.  The job may log between Stat and the read.           *)
SizeOf(lines) == IF lines = 0 THEN 0 ELSE ncclLog[lines].to

(* Mutant: the read starts at the head of the file.                        *)
SeekTo_Head == 0

(* A file larger than the cap, when its size was taken, is read from there *)
(* on; a cap's worth is read at most.                                      *)
SeekTo ==
    IF SizeOf(ncclStat) > ncclMaxBytes THEN SizeOf(ncclStat) - ncclMaxBytes ELSE 0

LimitAt == SeekTo + ncclMaxBytes

Stat_NCCL ==
    /\ Running("NCCLLog")
    /\ ncclStat' = Len(ncclLog) /\ pc' = "read"
    /\ UNCHANGED <<collector, logs, proc, ncclLog, ncclRead, ncclEvents>>

(* The lines the read touches, those it takes whole, and how much it takes *)
(* of the others: the first may be cut at the front, the last at the end.  *)
Touched ==
    {i \in 1..Len(ncclLog) : ncclLog[i].to > SeekTo /\ ncclLog[i].from < LimitAt}
Whole(i) == ncclLog[i].from >= SeekTo /\ ncclLog[i].to <= LimitAt
Taken(i) == Min({ncclLog[i].to, LimitAt}) - Max({ncclLog[i].from, SeekTo})

(* A line that is cut may lose the words it was recognized by.             *)
Cut(kind) == {k \in {"timeout", "op", "noise"} :
                k # kind => k = "noise" \/ kind = "timeout"}

(* The Scanner stops at the first line that is too long for it.            *)
Scanned(lines) ==
    {i \in DOMAIN lines : \A j \in DOMAIN lines : j <= i => lines[j].len <= MaxLine}

(* A watchdog line is a timeout, another collective line a completion.     *)
parseNCCL(lines) ==
    [i \in {j \in Scanned(lines) : lines[j].kind # "noise"} |->
        IF lines[i].kind = "timeout" THEN "OP_TIMEOUT" ELSE "OP_COMPLETED"]

Collect_NCCL ==
    /\ collector = "NCCLLog" /\ pc = "read"
    /\ \E kind \in [Touched -> {"timeout", "op", "noise"}] :
          /\ \A i \in Touched : IF Whole(i) THEN kind[i] = ncclLog[i].kind
                                ELSE kind[i] \in Cut(ncclLog[i].kind)
          /\ ncclRead' = [i \in Touched |-> [kind |-> kind[i], len |-> Taken(i)]]
    /\ ncclEvents' = parseNCCL(ncclRead')
    /\ pc' = "done"
    /\ UNCHANGED <<collector, logs, proc, ncclLog, ncclStat>>

(* The job logs a line.                                                    *)
JobLogs(l) ==
    /\ collector = "NCCLLog" /\ pc # "done" /\ Len(ncclLog) < MaxLines
    /\ ncclLog' = Append(ncclLog, [kind |-> l.kind, from |-> SizeOf(Len(ncclLog)),
                                  to |-> SizeOf(Len(ncclLog)) + l.len])
    /\ UNCHANGED <<collector, pc, logs, proc, ncclStat, ncclRead, ncclEvents>>

Next ==
    \/ \E lines \in KmsgTexts : Collect_Logs(lines)
    \/ Check_Lost \/ Check_Width \/ Check_Speed
    \/ Stat_NCCL \/ Collect_NCCL
    \/ \E a \in Addrs, l \in Links : LinkChanges(a, l)
    \/ \E l \in NcclLines : JobLogs(l)

Spec == Init /\ [][Next]_vars

-----------------------------------------------------------------------------
(* Properties.                                                             *)

(* The record that line h of t starts, and the lines whose record holds an *)
(* Xid.                                                                    *)
Record(t, h) ==
    LET lines == {j \in h..Len(t) : \A i \in h + 1..j : t[i].cont}
    IN  FlattenSeq([i \in 1..Cardinality(lines) |-> t[h + i - 1].tokens])
Records(t) ==
    {h \in 1..Len(t) :
        ~t[h].cont /\ \E i \in 1..Len(Record(t, h)) : XidAt(Record(t, h), i)}

(* The event has the first number and the first GPU of the record.         *)
Describes(event, raw) ==
    /\ \E i \in 1..Len(raw) :
         /\ XidAt(raw, i) /\ event.xid = raw[i + 1]
         /\ \A j \in 1..i - 1 : ~XidAt(raw, j)
    /\ \/ event.dev = None /\ \A i \in 1..Len(raw) : raw[i] \notin Gpus
       \/ \E i \in 1..Len(raw) :
            /\ raw[i] \in Gpus /\ event.dev = raw[i]
            /\ \A j \in 1..i - 1 : raw[j] \notin Gpus

(* One event per kernel record that holds an Xid, in order, with the first *)
(* number of that record and the GPU that record names, wherever the       *)
(* kernel split it: never a number or a GPU of another record, and none    *)
(* from continuation lines whose record was overwritten                    *)
(* (collectors_logs.go:106).                                               *)
XidsAreTheRecords ==
    LET records == Records(text)
        position(h) == Cardinality({r \in records : r <= h})
    IN  /\ Len(xidEvents) = Cardinality(records)
        /\ \A h \in records : Describes(xidEvents[position(h)], Record(text, h))

(* What the documentation calls each state of a link.                      *)
Means(leg, a, l) ==
    \/ leg = "device.lost" /\ a \in NVIDIA /\ l.width = 0
    \/ leg = "link.degraded.width" /\ l.width > 0 /\ l.width < MaxWidth
    \/ leg = "link.degraded.speed" /\ l.speed > 0 /\ l.speed < MaxSpeed

(* Though attributes are read one by one while links change, a leg states  *)
(* what was true of its device at some moment of the scan, and a device    *)
(* has one leg at most (collectors_proc.go:145,157).                       *)
LegsWereTrue ==
    /\ \A leg \in legs : \E l \in had[leg[2]] : Means(leg[1], leg[2], l)
    /\ \A p, q \in legs : p[2] = q[2] => p = q

(* A link that did not change during the scan gets exactly the leg of its  *)
(* state: lost before width before speed (collectors_proc.go:139,144).     *)
SteadyLinksReported ==
    pc = "done" /\ collector = "ProcLink" =>
      \A a \in {b \in Addrs : Cardinality(had[b]) = 1} :
        LET is(leg) == Means(leg, a, link[a])
            has(leg) == <<leg, a>> \in legs
        IN  /\ has("device.lost") <=> is("device.lost")
            /\ has("link.degraded.width") <=>
                 is("link.degraded.width") /\ ~is("device.lost")
            /\ has("link.degraded.speed") <=>
                 /\ is("link.degraded.speed")
                 /\ ~is("device.lost") /\ ~is("link.degraded.width")

(* "recent events are always in-window": of a log as it was when its size  *)
(* was taken, every timeout line within the read cap of its end is         *)
(* reported, however long the log and whatever the job logs meanwhile; and *)
(* only timeout lines are, those that were cut included; as long as no     *)
(* line the read took is too long for the Scanner                          *)
(* (collectors_nccl.go:71).                                                *)
RecentTimeoutsReported ==
    pc = "done" /\ collector = "NCCLLog" =>
      LET timeouts == {i \in DOMAIN ncclEvents : ncclEvents[i] = "OP_TIMEOUT"}
          recent == {i \in 1..ncclStat :
                       SizeOf(ncclStat) - ncclLog[i].from <= ncclMaxBytes}
          isTimeout(i) == ncclLog[i].kind = "timeout"
      IN  /\ (\A i \in DOMAIN ncclRead : ncclRead[i].len <= MaxLine) =>
                {i \in recent : isTimeout(i)} \subseteq timeouts
          /\ \A i \in timeouts : isTimeout(i)
=============================================================================
