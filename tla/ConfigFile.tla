------------------------------ MODULE ConfigFile ------------------------------
(***************************************************************************)
(* The configuration: the tables a configuration file is loaded into, line *)
(* by line, at the start and by the control thread at every SIGUSR1        *)
(* (trace_config.c, trace_config_parse.c), and the search by which an      *)
(* application thread finds and caches the section that governs a region   *)
(* (pinsight.c).                                                           *)
(*                                                                         *)
(* A file is a sequence of lines, a line a record: a header                *)
(* [ACTION target] : Inheritance : PunitSets or a key = value.  Spelling   *)
(* and spacing are left out.  A domain has one kind of processing unit.    *)
(* Sections and keys are merged into tables that outlive the load.  Of a   *)
(* section's end_action, fired and generation are left to WindowControl.   *)
(* A value a key refuses is the field good = FALSE of its line.            *)
(***************************************************************************)
EXTENDS PunitSets

CONSTANTS
    Domains,       \* the registered domains
    Installed,     \* eventInstallStatus of each, a set of events
    StartingMode,  \* starting_mode of each
    PolicyDomains, \* those with a device_activity key
    Deferred,      \* those kept in STANDBY until their launcher says so (Python)
    AllUnits,      \* the range of unit ids each is registered with
    Regions,       \* [code, dom, name, file] of the regions the threads run
    TableSize,     \* MAX_NUM_LEXGIONS
    KnobTable,     \* MAX_NUM_KNOBS
    Files,         \* the files a process may be started with
    Edits,         \* the files it may be edited to
    Envs,          \* the environments it may be started in
    MaxLoads       \* bound: loads

AnyDomain == "any"     \* domain_index -1
Null == "null"         \* a NULL codeptr
Unset == "unset"
Fields == {"trace_starts_at", "max_num_traces", "tracing_rate"}

ASSUME ConfigAssumption ==
    /\ AnyDomain \notin Domains
    /\ PolicyDomains \subseteq Domains /\ Deferred \subseteq Domains
    /\ TableSize \in Nat /\ KnobTable \in Nat /\ MaxLoads \in Nat

\* A region has an address.  A file is a sequence of lines, and so is what a
\* header lists between its parentheses.
ASSUME InputsAssumption ==
    /\ \A r \in Regions : r.dom \in Domains /\ r.code # Null
    /\ \A f \in Files :
          /\ f \in Seq(Range(f))
          /\ \A i \in DOMAIN f : "action" \in DOMAIN f[i] =>
                /\ f[i].action \in {"SET", "RESET", "REMOVE"}
                /\ f[i].who \in Seq(Range(f[i].who))

VARIABLES
    trace,      \* domain_trace_config
    range,      \* domain_info_table[].punits[].low .. high
    sampling,   \* domain_sampling_config
    punits,     \* domain_punit_trace_config: the lists of each domain
    default,    \* lexgion_default_trace_config
    domDefault, \* lexgion_domain_default_trace_config
    table,      \* lexgion_trace_config[0 .. num_lexgion_trace_configs]
    knobs,      \* knob_table
    service,    \* energy_measure_policy and manifest_interval_sec
    counter,    \* config_change_counter
    hash,       \* what config_dump_hash is the hash of
    disk,       \* the dumps in PINSIGHT_MANIFEST_DIR
    env,        \* the environment
    file,       \* the configuration file
    lines,      \* the lines the parser has not read
    section,    \* the parser's context
    loader,     \* what the loading thread is about to do
    loads,      \* loads so far
    before,     \* the file loaded before, and the tables when this load began
    found,      \* the entry a thread found and is about to cache
    cache       \* trace_config and config_change_counter of each region

tables == <<trace, range, sampling, punits, default, domDefault, table, knobs, service>>
lexgionTables == <<default, domDefault, table>>
domainTables == <<trace, range, sampling, punits>>
plainTables == <<knobs, service>>
published == <<counter, hash, disk>>
resolution == <<found, cache>>
run == <<env, file, loads, before>>
vars == <<tables, published, run, lines, section, loader, resolution>>

-----------------------------------------------------------------------------
(***************************************************************************)
(* The entries.                                                            *)
(***************************************************************************)
NoEnd == [introspect |-> FALSE, mode |-> [d \in Domains |-> Unset],
          policy |-> [d \in Domains |-> Unset],
          interval |-> [d \in Domains |-> -1]]

\* set is the flag of the domain's one kind of units.
NoUnits == [d \in Domains |-> [set |-> FALSE, ids |-> {}]]

\* lexgion_trace_config_t.  Every section starts from such a record.
SystemDefault ==
    [code |-> Null, name |-> "", dom |-> AnyDomain, hint |-> "", removed |-> FALSE,
     num |-> [f \in Fields |-> CASE f = "tracing_rate" -> 1
                                 [] f = "trace_starts_at" -> 0
                                 [] OTHER -> -1],
     end |-> NoEnd, timeout |-> 0, trigger |-> "first",
     events |-> [d \in Domains |-> [set |-> FALSE, on |-> {}]],
     limited |-> FALSE,
     units |-> NoUnits]

SamplingDefault ==
    [interval_us |-> 0, max_depth |-> 128, overhead_budget |-> 0,
     output |-> "record", sampler_thread |-> "shared", process_fraction |-> 100]

\* parse_window_end_action: one clause.  An unknown domain's says nothing.
ApplyClause(e, c) ==
    CASE c.on = "introspect" -> [e EXCEPT !.introspect = TRUE]
      [] c.on = "all" -> [e EXCEPT !.mode = [d \in Domains |-> c.mode]]
      [] c.on = "mode" /\ c.dom \in Domains -> [e EXCEPT !.mode[c.dom] = c.mode]
      [] c.on = "policy" /\ c.dom \in PolicyDomains ->
            [e EXCEPT !.policy[c.dom] = c.policy]
      [] c.on = "sampling" /\ c.dom \in Domains /\ c.good ->
            [e EXCEPT !.interval[c.dom] = c.interval]
      [] OTHER -> e

EndAction(e, clauses) == FoldLeft(ApplyClause, e, clauses)

\* An event is on only where it is installed.
Switched(d, events, l) ==
    IF l.on /\ l.event \in Installed[d] THEN events \cup {l.event} ELSE events \ {l.event}

\* parse_punit_set_string: [dom, ids] items.  Of the ids below nbits those out
\* of the domain's range are dropped; what was parsed before an error stays.
PunitSet(units, items) ==
    FoldLeft(LAMBDA acc, i :
                IF ~acc.ok \/ i.dom \notin Domains THEN acc
                ELSE LET p == ParseRanges(i.ids) IN
                     [ok |-> p.ok,
                      units |-> [acc.units EXCEPT ![i.dom] =
                          [set |-> TRUE,
                           ids |-> IF p.ok
                                   THEN {u \in p.ids : u \in range[i.dom] \/ u >= Bits}
                                   ELSE p.ids]]],
             [ok |-> TRUE, units |-> units], items)

\* apply_inheritance: a copy of what the domains say now.
Inherit(e, doms) ==
    [e EXCEPT !.events = [d \in Domains |->
        IF d \in doms THEN [set |-> TRUE, on |-> trace[d].events] ELSE @[d]]]

\* A section's third part.  (Of several entries the first alone keeps what a
\* part that fails had set; the files have no such part.)
Limit(e, items) ==
    IF items = <<>> THEN e
    ELSE LET p == PunitSet(e.units, items) IN
         [e EXCEPT !.units = p.units, !.limited = @ \/ p.ok]

-----------------------------------------------------------------------------
(***************************************************************************)
(* Finding and creating the entries of a [Lexgion(...)] header.  acc is    *)
(* the table, the entries selected so far, and whether the process crashed *)
(* on the NULL that a full table returns for an address.                   *)
(***************************************************************************)
Selected(acc, i) ==
    [acc EXCEPT !.table[i].removed = FALSE, !.at = Append(@, i)]

\* alloc_lexgion_config, at once followed by what identifies the entry.
Alloc(acc, s) ==
    [acc EXCEPT !.table = Append(@, [default EXCEPT !.code = s.code, !.name = s.name,
                                        !.dom = s.dom, !.hint = s.hint,
                                        !.removed = FALSE]),
                !.at = Append(@, Len(acc.table) + 1)]

\* get_or_create_address_lexgion_config.
SelectAddress(acc, s) ==
    LET same == {i \in DOMAIN acc.table : acc.table[i].code = s.code} IN
    IF same # {} THEN Selected(acc, Min(same))
    ELSE IF Len(acc.table) < TableSize THEN Alloc(acc, s)
    ELSE [acc EXCEPT !.crashed = TRUE]

\* Faulty: the entry is found again, and stays marked removed.
SelectNamedRemoved(acc, s) ==
    LET same == {i \in DOMAIN acc.table :
                    /\ acc.table[i].code = Null
                    /\ acc.table[i].dom = s.dom /\ acc.table[i].name = s.name}
    IN IF same # {} THEN [acc EXCEPT !.at = Append(@, Min(same))]
       ELSE IF Len(acc.table) < TableSize THEN Alloc(acc, s) ELSE acc

\* get_or_create_named_lexgion_config: the file name is not compared.
SelectNamed(acc, s) ==
    LET same == {i \in DOMAIN acc.table :
                    /\ acc.table[i].code = Null
                    /\ acc.table[i].dom = s.dom /\ acc.table[i].name = s.name}
    IN IF same # {} THEN Selected(acc, Min(same))
       ELSE IF Len(acc.table) < TableSize THEN Alloc(acc, s) ELSE acc

\* One of the names between the parentheses.
Select(action, acc, s) ==
    IF acc.crashed THEN acc
    ELSE IF s.code # Null THEN SelectAddress(acc, s)
    ELSE IF action = "REMOVE" \/ s.name = "" \/ s.dom \notin Domains \cup {AnyDomain} THEN acc
    ELSE SelectNamed(acc, s)

SelectAll(h) ==
    FoldLeft(LAMBDA acc, s : Select(h.action, acc, s),
             [table |-> table, at |-> <<>>, crashed |-> FALSE], h.who)

-----------------------------------------------------------------------------
(***************************************************************************)
(* Headers.  Every header first forgets the section before it.             *)
(***************************************************************************)
NoSection == [kind |-> "none", dom |-> AnyDomain, at |-> <<>>, unit |-> 0]
Section(kind) == [NoSection EXCEPT !.kind = kind]
DomainSection(kind, d) == [NoSection EXCEPT !.kind = kind, !.dom = d]

IsHeader(l) == "action" \in DOMAIN l

\* The line the parser reads next.
Line == Head(lines)

Read(l) ==
    /\ loader = "parsing" /\ lines # <<>> /\ Line = l
    /\ lines' = Tail(lines)
    /\ UNCHANGED <<published, run, loader, resolution>>

AtHeader(target) ==
    /\ lines # <<>> /\ IsHeader(Line) /\ Line.target = target
    /\ Read(Line)

\* [Lexgion.default].  REMOVE is refused; RESET takes no body.
HeadDefault ==
    /\ AtHeader("Lexgion.default")
    /\ default' = CASE Line.action = "SET" -> Inherit(default, Line.inherit)
                    [] Line.action = "RESET" -> SystemDefault
                    [] OTHER -> default
    /\ section' = IF Line.action = "SET" THEN Section("default") ELSE NoSection
    /\ UNCHANGED <<domDefault, table, domainTables, plainTables>>

\* Lexgion.default with the domain's events.
Combined(d, code) ==
    [default EXCEPT !.code = code,
                    !.events[d] = [set |-> TRUE, on |-> trace[d].events]]

\* [Lexgion(Domain).default]: combined afresh whatever the action.
HeadDomainDefault ==
    /\ AtHeader("Lexgion(D).default")
    /\ IF Line.dom \in Domains
       THEN LET e == Combined(Line.dom, "user") IN
            /\ domDefault' = [domDefault EXCEPT ![Line.dom] =
                                IF Line.action = "SET" THEN Inherit(e, Line.inherit) ELSE e]
            /\ section' = IF Line.action = "SET" THEN DomainSection("domDefault", Line.dom)
                          ELSE NoSection
       ELSE section' = NoSection /\ UNCHANGED domDefault
    /\ UNCHANGED <<default, table, domainTables, plainTables>>

\* [Lexgion(a, b, ...)].  A refused RESET has created and restored entries.
HeadLexgions ==
    LET sel == SelectAll(Line)
        selected(i) == \E k \in DOMAIN sel.at : sel.at[k] = i
        Written(i, e) == CASE Line.action = "SET" ->
                                  Limit(Inherit(e, Line.inherit), Line.limit)
                           [] Line.action = "REMOVE" -> [e EXCEPT !.removed = TRUE]
                           [] OTHER -> e
    IN /\ AtHeader("Lexgion")
       /\ ~sel.crashed
       /\ table' = [i \in DOMAIN sel.table |->
                       IF selected(i) THEN Written(i, sel.table[i]) ELSE sel.table[i]]
       /\ section' = IF sel.at = <<>> \/ Line.action = "SET"
                     THEN [Section("lexgions") EXCEPT !.at = sel.at]
                     ELSE NoSection
       /\ UNCHANGED <<default, domDefault, domainTables, plainTables>>

\* The full table: the entry's address is NULL and its removed is written.
Crash ==
    /\ loader = "parsing" /\ lines # <<>> /\ IsHeader(Line) /\ Line.target = "Lexgion"
    /\ SelectAll(Line).crashed
    /\ loader' = "crashed"
    /\ UNCHANGED <<tables, published, run, lines, section, resolution>>

\* reset_domain_trace_config.
ResetTrace(d) ==
    [trace[d] EXCEPT !.events = Installed[d], !.last = trace[d].mode,
                     !.mode = StartingMode[d], !.latched = FALSE]

\* [Domain.tracing].  An unknown domain's keys are read and dropped.
HeadTracing ==
    /\ AtHeader("D.tracing")
    /\ IF Line.dom \in Domains
       THEN /\ trace' = IF Line.action = "RESET"
                        THEN [trace EXCEPT ![Line.dom] = ResetTrace(Line.dom)] ELSE trace
            /\ section' = IF Line.action = "SET" THEN DomainSection("tracing", Line.dom)
                          ELSE NoSection
       ELSE section' = Section("tracing") /\ UNCHANGED trace
    /\ UNCHANGED <<range, sampling, punits, lexgionTables, plainTables>>

\* [Domain.sampling].
HeadSampling ==
    /\ AtHeader("D.sampling")
    /\ sampling' = IF Line.dom \in Domains /\ Line.action = "RESET"
                   THEN [sampling EXCEPT ![Line.dom] = SamplingDefault] ELSE sampling
    /\ section' = IF Line.dom \in Domains /\ Line.action = "SET"
                  THEN DomainSection("sampling", Line.dom) ELSE NoSection
    /\ UNCHANGED <<trace, range, punits, lexgionTables, plainTables>>

\* [Domain.default] is no section any more.
HeadRejected ==
    /\ AtHeader("D.default")
    /\ section' = NoSection
    /\ UNCHANGED tables

\* [Knob], [Energy] and [Manifest].
HeadPlain ==
    /\ \E k \in {"knob", "energy", "manifest"} :
          AtHeader(k) /\ section' = Section(k)
    /\ UNCHANGED tables

\* find_exact_punit_config: the first whose own units are the same.
SameUnits(d, units) ==
    {i \in DOMAIN punits[d] : Equal(punits[d][i].units[d].ids, units[d].ids)}

\* [Domain.PunitKind(Set)].  A REMOVE of a set that is there turns its events
\* off; a SET of one that is not appends it.
HeadPunits ==
    LET p == PunitSet(NoUnits, <<[dom |-> Line.dom, ids |-> Line.ids]>>)
        d == Line.dom
        same == SameUnits(d, p.units)
        at == IF same # {} THEN Min(same) ELSE Len(punits[d]) + 1
        old == IF same # {} THEN punits[d][at] ELSE [units |-> p.units, events |-> {}]
        new == [units |-> IF Line.limit = <<>> THEN old.units
                          ELSE PunitSet(old.units, Line.limit).units,
                events |-> IF Line.inherit \cap Domains = {} THEN old.events
                           ELSE trace[CHOOSE i \in Line.inherit \cap Domains : TRUE].events]
    IN /\ AtHeader("D.Kind")
       /\ CASE Line.action = "RESET" -> section' = NoSection /\ UNCHANGED punits
            [] Line.action # "RESET" /\ (d \notin Domains \/ ~p.ok) ->
                  section' = Section("punit") /\ UNCHANGED punits
            [] Line.action = "REMOVE" /\ d \in Domains /\ p.ok ->
                  /\ punits' = IF same = {} THEN punits
                               ELSE [punits EXCEPT ![d][at] =
                                        [units |-> p.units, events |-> {}]]
                  /\ section' = IF same = {} THEN DomainSection("punit", d) ELSE NoSection
            [] Line.action = "SET" /\ d \in Domains /\ p.ok ->
                  /\ punits' = [punits EXCEPT ![d] =
                                   IF same # {} THEN [@ EXCEPT ![at] = new] ELSE Append(@, new)]
                  /\ section' = [DomainSection("punit", d) EXCEPT !.unit = at]
       /\ UNCHANGED <<trace, range, sampling, lexgionTables, plainTables>>

\* [REMOVE Domain.PunitKind( * )].
HeadAllPunits ==
    /\ AtHeader("D.Kind(*)")
    /\ punits' = IF Line.action = "REMOVE" /\ Line.dom \in Domains
                 THEN [punits EXCEPT ![Line.dom] = <<>>] ELSE punits
    /\ section' = IF Line.action = "SET" THEN Section("punit") ELSE NoSection
    /\ UNCHANGED <<trace, range, sampling, lexgionTables, plainTables>>

-----------------------------------------------------------------------------
(***************************************************************************)
(* Keys.  A key another section would read is dropped.                     *)
(***************************************************************************)
Key(k) == /\ lines # <<>> /\ ~IsHeader(Line) /\ Line.key = k
          /\ Read(Line)
          /\ UNCHANGED section

LexgionKeys == {"num", "window_end_action", "window_timeout", "window_end_trigger",
                "Domain.Event"}
LexgionSections == {"lexgions", "default", "domDefault"}

\* What a key of a lexgion section makes of an entry.  The whole end_action is
\* read afresh; an event of a domain is the domain's first word on the others.
Keyed(e, l) ==
    CASE l.key = "num" -> [e EXCEPT !.num[l.field] = l.value]
      [] l.key = "window_end_action" -> [e EXCEPT !.end = EndAction(NoEnd, l.clauses)]
      [] l.key = "window_timeout" -> [e EXCEPT !.timeout = l.value]
      [] l.key = "window_end_trigger" ->
            [e EXCEPT !.trigger = IF l.value = "all" THEN "all" ELSE "first"]
      [] l.key = "Domain.Event" /\ l.dom \in Domains ->
            [e EXCEPT !.events[l.dom] =
                [set |-> TRUE, on |-> Switched(l.dom, e.events[l.dom].on, l)]]
      [] OTHER -> e

\* Faulty: of several entries the first alone takes the key.
FirstTarget == IF section.at = <<>> THEN {} ELSE {section.at[1]}

\* The entries of the table the section's header selected.
Targets == {section.at[k] : k \in DOMAIN section.at}

\* A key of the section's one entry, or of every entry its header selected.
KeyLexgion ==
    /\ section.kind \in LexgionSections
    /\ \E k \in LexgionKeys : Key(k)
    /\ default' = IF section.kind = "default" THEN Keyed(default, Line) ELSE default
    /\ domDefault' = IF section.kind = "domDefault"
                     THEN [domDefault EXCEPT ![section.dom] = Keyed(@, Line)]
                     ELSE domDefault
    /\ table' = [i \in DOMAIN table |->
                    IF i \in Targets THEN Keyed(table[i], Line) ELSE table[i]]
    /\ UNCHANGED <<domainTables, plainTables>>

\* A bad value is dropped where the key is a word, else the default is used.
KeySampling ==
    /\ section.kind = "sampling"
    /\ Key("sampling")
    /\ sampling' = [sampling EXCEPT ![section.dom][Line.field] =
                      IF Line.good THEN Line.value
                      ELSE IF Line.field \in {"sampler_thread", "output"} THEN @
                      ELSE SamplingDefault[Line.field]]
    /\ UNCHANGED <<trace, range, punits, lexgionTables, plainTables>>

\* A mode that changes opens the latch of the domain, unless it was OFF.
KeyMode ==
    /\ section.kind = "tracing" /\ section.dom \in Domains
    /\ Key("trace_mode")
    /\ LET d == section.dom IN
       trace' = [trace EXCEPT ![d].last = trace[d].mode, ![d].mode = Line.mode,
                   ![d].latched = @ /\ trace[d].mode \in {Line.mode, "OFF"}]
    /\ UNCHANGED <<range, sampling, punits, lexgionTables, plainTables>>

\* Domain.PunitKind = (low, high), of the section's own domain.
KeyRange ==
    /\ section.kind = "tracing" /\ section.dom \in Domains
    /\ Key("Domain.PunitKind")
    /\ range' = IF Line.dom = section.dom
                THEN [range EXCEPT ![Line.dom] = Line.lo .. Line.hi] ELSE range
    /\ UNCHANGED <<trace, sampling, punits, lexgionTables, plainTables>>

\* device_activity; to other domains it is no key.
KeyPolicy ==
    /\ section.kind = "tracing" /\ section.dom \in Domains
    /\ Key("device_activity")
    /\ trace' = IF section.dom \in PolicyDomains
                THEN [trace EXCEPT ![section.dom].policy =
                        IF Line.good THEN Line.policy ELSE "off"]
                ELSE trace
    /\ UNCHANGED <<range, sampling, punits, lexgionTables, plainTables>>

\* An event, of the domain or of the set of its units.
KeyEvent ==
    /\ section.kind \in {"tracing", "punit"} /\ section.dom \in Domains
    /\ Key("Event")
    /\ trace' = IF section.kind = "tracing"
                THEN [trace EXCEPT ![section.dom].events = Switched(section.dom, @, Line)]
                ELSE trace
    /\ punits' = IF section.kind = "punit" /\ section.unit # 0
                 THEN [punits EXCEPT ![section.dom][section.unit].events =
                         Switched(section.dom, @, Line)]
                 ELSE punits
    /\ UNCHANGED <<range, sampling, lexgionTables, plainTables>>

\* A knob is created by its first value, while there is room.
KeyKnob ==
    /\ section.kind = "knob"
    /\ Key("knob")
    /\ knobs' = IF Line.name \in DOMAIN knobs \/ Cardinality(DOMAIN knobs) < KnobTable
                THEN (Line.name :> Line.value) @@ knobs ELSE knobs
    /\ UNCHANGED <<domainTables, lexgionTables, service>>

\* measure of [Energy], interval of [Manifest].
KeyService ==
    /\ \/ section.kind = "energy" /\ Key("measure")
          /\ service' = [service EXCEPT !.measure = IF Line.good THEN Line.policy ELSE @]
       \/ section.kind = "manifest" /\ Key("interval")
          /\ service' = [service EXCEPT !.interval = Line.value]
    /\ UNCHANGED <<domainTables, lexgionTables, knobs>>

\* The sections that read a key.
ReadIn(k) ==
    CASE k \in LexgionKeys -> LexgionSections
      [] k \in {"trace_mode", "Domain.PunitKind", "device_activity"} -> {"tracing"}
      [] k = "Event" -> {"tracing", "punit"}
      [] k = "sampling" -> {"sampling"}
      [] k = "knob" -> {"knob"}
      [] k = "measure" -> {"energy"}
      [] k = "interval" -> {"manifest"}

KeyDropped ==
    /\ lines # <<>> /\ ~IsHeader(Line)
    /\ \/ section.kind \notin ReadIn(Line.key)
       \/ section.kind \in {"tracing", "punit"} /\ section.dom \notin Domains
    /\ Key(Line.key)
    /\ UNCHANGED tables

ReadLine ==
    \/ HeadDefault \/ HeadDomainDefault \/ HeadLexgions \/ Crash
    \/ HeadTracing \/ HeadSampling \/ HeadRejected \/ HeadPlain
    \/ HeadPunits \/ HeadAllPunits
    \/ KeyLexgion \/ KeySampling \/ KeyMode \/ KeyRange \/ KeyPolicy \/ KeyEvent
    \/ KeyKnob \/ KeyService \/ KeyDropped

-----------------------------------------------------------------------------
(***************************************************************************)
(* Loads.                                                                  *)
(***************************************************************************)
\* What pinsight_config_dump_refresh prints: domains and knobs.
Dump ==
    [domains |-> [d \in Domains |->
        [mode |-> trace[d].mode, range |-> range[d], events |-> trace[d].events,
         sampling |-> sampling[d],
         punits |-> [i \in DOMAIN punits[d] |->
            [units |-> [k \in Domains |-> RangeString(punits[d][i].units[k].ids)],
             events |-> punits[d][i].events]]]],
     knobs |-> knobs]

\* What a load decides; the rest of trace is the run's.
Config == <<[d \in Domains |-> [trace[d] EXCEPT !.last = Unset, !.latched = FALSE]],
            range, sampling, punits, default, domDefault, table, knobs, service>>

Begin(f) ==
    /\ loads < MaxLoads
    /\ loads' = loads + 1
    /\ file' = f /\ lines' = f
    /\ before' = [file |-> file, config |-> Config]
    /\ section' = NoSection
    /\ domDefault' = [d \in Domains |-> [domDefault[d] EXCEPT !.code = Null]]
    /\ table' = [i \in DOMAIN table |->
                    [table[i] EXCEPT !.removed = @ \/ table[i].name # ""]]
    /\ UNCHANGED <<default, domainTables, plainTables, env, resolution>>

\* initial_setup_config finds a file.
Start ==
    /\ loader = "start"
    /\ loader' = "parsing"
    /\ Begin(file)
    /\ UNCHANGED published

\* It finds none.
StartWithoutFile ==
    /\ loader = "start" /\ file = <<>>
    /\ loader' = "environment"
    /\ loads' = 1
    /\ hash' = Dump
    /\ UNCHANGED <<tables, counter, disk, env, file, before, lines, section, resolution>>

\* SIGUSR1, and the file is gone.
ReloadWithoutFile ==
    /\ loader = "running" /\ loads < MaxLoads
    /\ loader' = "dump"
    /\ loads' = loads + 1
    /\ hash' = Dump
    /\ UNCHANGED <<tables, counter, disk, env, file, before, lines, section, resolution>>

\* SIGUSR1: the file is read whether or not its time changed.
Reload ==
    /\ loader = "running"
    /\ loader' = "parsing"
    /\ \E f \in Edits \cup {file} : Begin(f)
    /\ UNCHANGED published

\* The defaults of the domains the file has no section for.
Filled == [d \in Domains |-> IF domDefault[d].code = Null THEN Combined(d, "filled")
                             ELSE domDefault[d]]

\* Faulty: the threads are not told.
LoadEndUntold ==
    /\ loader = "parsing" /\ lines = <<>>
    /\ domDefault' = Filled
    /\ hash' = Dump
    /\ loader' = IF loads = 1 THEN "environment" ELSE "dump"
    /\ UNCHANGED <<default, table, domainTables, plainTables, counter, disk, run, lines,
                   section, resolution>>

\* The file is read.
LoadEnd ==
    /\ loader = "parsing" /\ lines = <<>>
    /\ domDefault' = Filled
    /\ counter' = counter + 1
    /\ hash' = Dump
    /\ loader' = IF loads = 1 THEN "environment" ELSE "dump"
    /\ UNCHANGED <<default, table, domainTables, plainTables, disk, run, lines, section,
                   resolution>>

\* setup_config_env; then the domains that wait for their launcher.
ApplyEnv ==
    /\ loader = "environment"
    /\ loader' = "dump"
    /\ trace' = [d \in Domains |->
          LET mode == IF env.mode[d] # Unset THEN env.mode[d] ELSE trace[d].mode IN
          IF d \in Deferred THEN [trace[d] EXCEPT !.last = mode, !.mode = "STANDBY"]
          ELSE [trace[d] EXCEPT !.mode = mode]]
    /\ sampling' = [d \in Domains |->
          IF env.interval[d] # -1 THEN [sampling[d] EXCEPT !.interval_us = env.interval[d]]
          ELSE sampling[d]]
    /\ default' = [default EXCEPT !.num = env.num @@ @,
                     !.timeout = IF env.timeout = -1 THEN @ ELSE env.timeout,
                     !.end = EndAction(@, env.clauses)]
    /\ UNCHANGED <<range, punits, domDefault, table, plainTables, published, run, lines,
                   section, resolution>>

\* pinsight_manifest_dump_config: the control thread, at its start and after
\* a reload.
DumpConfig ==
    /\ loader = "dump"
    /\ loader' = "running"
    /\ disk' = disk \cup {hash}
    /\ UNCHANGED <<tables, counter, hash, run, lines, section, resolution>>

-----------------------------------------------------------------------------
(***************************************************************************)
(* Resolution, on the application's threads.                               *)
(***************************************************************************)
NoEntry == [level |-> "none", dom |-> AnyDomain, at |-> 0]
Level(l) == [NoEntry EXCEPT !.level = l]

\* The table is searched by address, then by name.
ByAddress(r) == {i \in DOMAIN table : table[i].code = r.code /\ ~table[i].removed}
ByName(r) ==
    {i \in DOMAIN table :
        /\ ~table[i].removed
        /\ table[i].code = Null /\ table[i].name # ""
        /\ table[i].dom \in {AnyDomain, r.dom}
        /\ table[i].hint = "" \/ r.file = "" \/ table[i].hint = r.file
        /\ table[i].name = r.name}

\* The entry that governs r.
Lookup(r) ==
    IF ByAddress(r) # {} THEN [Level("table") EXCEPT !.at = Min(ByAddress(r))]
    ELSE IF ByName(r) # {} THEN [Level("table") EXCEPT !.at = Min(ByName(r))]
    ELSE IF domDefault[r.dom].code # Null THEN [Level("domain") EXCEPT !.dom = r.dom]
    ELSE Level("default")

Entry(e) == CASE e.level = "table" -> table[e.at]
              [] e.level = "domain" -> domDefault[e.dom]
              [] OTHER -> default

Started == loader \notin {"start", "crashed"} /\ (loads > 1 \/ loader = "running")

\* A begin finds no entry cached, or one from before a load.
Search(r) ==
    /\ Started
    /\ found[r].entry = NoEntry
    /\ cache[r].entry = NoEntry \/ cache[r].counter # counter
    /\ found' = [found EXCEPT ![r] = [entry |-> Lookup(r), counter |-> counter]]
    /\ UNCHANGED <<tables, published, run, lines, section, loader, cache>>

\* The entry and then the counter, as it is by now; at is what it was.
Store(r) ==
    /\ loader # "crashed"
    /\ found[r].entry # NoEntry
    /\ cache' = [cache EXCEPT ![r] = [entry |-> found[r].entry, counter |-> counter,
                                      at |-> found[r].counter]]
    /\ found' = [found EXCEPT ![r] = [entry |-> NoEntry, counter |-> 0]]
    /\ UNCHANGED <<tables, published, run, lines, section, loader>>

-----------------------------------------------------------------------------
Init ==
    /\ env \in Envs
    /\ file \in Files
    /\ trace = [d \in Domains |-> [mode |-> StartingMode[d], last |-> Unset, latched |-> FALSE,
                                   events |-> Installed[d], policy |-> "off"]]
    /\ range = AllUnits
    /\ sampling = [d \in Domains |-> SamplingDefault]
    /\ punits = [d \in Domains |-> <<>>]
    /\ default = SystemDefault
    /\ domDefault = [d \in Domains |-> SystemDefault]
    /\ table = <<>>
    /\ knobs = <<>>
    /\ service = [measure |-> "off", interval |-> 10]
    /\ counter = 0
    /\ hash = <<>>
    /\ disk = {}
    /\ lines = <<>>
    /\ section = NoSection
    /\ loader = "start"
    /\ loads = 0
    /\ before = [file |-> <<>>, config |-> <<>>]
    /\ found = [r \in Regions |-> [entry |-> NoEntry, counter |-> 0]]
    /\ cache = [r \in Regions |-> [entry |-> NoEntry, counter |-> 0, at |-> 0]]

Next ==
    \/ Start \/ StartWithoutFile \/ Reload \/ ReloadWithoutFile
    \/ ReadLine \/ LoadEnd \/ ApplyEnv \/ DumpConfig
    \/ \E r \in Regions : Search(r) \/ Store(r)

Spec == Init /\ [][Next]_vars

-----------------------------------------------------------------------------
(***************************************************************************)
(* What a file says, by the documentation: sections in the order of their  *)
(* kinds, actions only on the targets they are valid for.                  *)
(***************************************************************************)
Headers(f) == {i \in DOMAIN f : IsHeader(f[i])}

OrderOf(h) ==
    CASE h.target = "D.tracing" -> 1
      [] h.target = "D.sampling" -> 2
      [] h.target \in {"D.Kind", "D.Kind(*)"} -> 3
      [] h.target = "Lexgion.default" -> 4
      [] h.target = "Lexgion(D).default" -> 5
      [] h.target = "Lexgion" -> 6
      [] OTHER -> 7

InOrder(f) == \A i, j \in Headers(f) : i < j => OrderOf(f[i]) <= OrderOf(f[j])

\* Valid actions, and no domain default set twice: its second section would
\* forget the first, where the documentation has sections merge.
Proper(f) ==
    /\ InOrder(f)
    /\ \A i \in Headers(f) :
          /\ f[i].action = "REMOVE" => f[i].target \in {"D.Kind", "D.Kind(*)", "Lexgion"}
          /\ f[i].action = "RESET" => f[i].target \notin {"D.Kind", "D.Kind(*)", "Lexgion"}
    /\ \A i, j \in Headers(f) :
          /\ f[i].target = "Lexgion(D).default" /\ f[j].target = "Lexgion(D).default"
          /\ f[i].action = "SET" /\ f[j].action = "SET" /\ f[i].dom = f[j].dom
          => i = j

\* Sections of one function name one file: see FileSectionsCount.
OneFile(f) ==
    \A i, j \in Headers(f) :
        f[i].target = "Lexgion" /\ f[j].target = "Lexgion" =>
            \A s \in Range(f[i].who), t \in Range(f[j].who) :
                s.code = Null /\ t.code = Null /\ s.dom = t.dom /\ s.name = t.name
                => s.hint = t.hint

\* The lines that give a field in the bodies of the sections hs.
Giving(f, hs, field) ==
    {j \in DOMAIN f :
        /\ ~IsHeader(f[j]) /\ f[j].key = "num" /\ f[j].field = field
        /\ \E i \in hs : i < j /\ \A k \in Headers(f) : k <= i \/ k > j}

Value(f, hs, field, base) ==
    IF Giving(f, hs, field) = {} THEN base ELSE f[Max(Giving(f, hs, field))].value

\* The SET sections of a target since its last RESET.
Standing(f, is(_)) ==
    LET own == {i \in Headers(f) : is(f[i])} IN
    {i \in own : f[i].action = "SET" /\ \A j \in own : f[j].action = "RESET" => j < i}

DefaultValue(f, field) ==
    Value(f, Standing(f, LAMBDA h : h.target = "Lexgion.default"), field,
          SystemDefault.num[field])

DomainValue(f, d, field) ==
    Value(f, Standing(f, LAMBDA h : h.target = "Lexgion(D).default" /\ h.dom = d), field,
          DefaultValue(f, field))

Naming(f, is(_)) ==
    {i \in Headers(f) : f[i].target = "Lexgion" /\ \E k \in DOMAIN f[i].who : is(f[i].who[k])}

\* The sections of a region's function: those of its file, of any file, or of
\* a region that has none.
Fits(s, r) ==
    /\ s.code = Null /\ s.name = r.name /\ s.name # ""
    /\ s.dom \in {AnyDomain, r.dom}
    /\ s.hint = "" \/ r.file = "" \/ s.hint = r.file

\* A region's own section by address, else the first by name, else its
\* domain's default.
ValueFor(f, r, field) ==
    LET byAddress == Naming(f, LAMBDA s : s.code = r.code)
        byName == {i \in Naming(f, LAMBDA s : Fits(s, r)) : f[i].action = "SET"}
        who == f[Min(byName)].who
        first == who[Min({k \in DOMAIN who : Fits(who[k], r)})]
        same(s) == s.code = Null /\ s.dom = first.dom /\ s.name = first.name
        set(is) == {i \in is : f[i].action = "SET"}
    IN IF byAddress # {} /\ f[Max(byAddress)].action = "SET"
       THEN Value(f, set(byAddress), field, DefaultValue(f, field))
       ELSE IF byName # {}
       THEN Value(f, set(Naming(f, same)), field, DefaultValue(f, field))
       ELSE DomainValue(f, r.dom, field)

-----------------------------------------------------------------------------
\* A fresh start with a file that keeps to the documentation gives every
\* region the rates the file says (resolution and merging agree with the
\* section table of doc/user/trace_config_format.md).
EffectiveAsWritten ==
    /\ loader = "environment" /\ loads = 1 /\ counter = 1
    /\ Proper(file) /\ OneFile(file) /\ Len(table) < TableSize
    => \A r \in Regions : \A field \in Fields :
          Entry(Lookup(r)).num[field] = ValueFor(file, r, field)

\* doc/user/python_trace_config.md:301: a section of a file's function is in
\* effect for "`MyClass.compute` only in files named `solver.py`".
FileSectionsCount ==
    /\ loader = "environment" /\ loads = 1 /\ counter = 1
    /\ Proper(file) /\ Len(table) < TableSize
    => \A r \in Regions : \A i \in Headers(file) :
          /\ file[i].target = "Lexgion" /\ file[i].action = "SET"
          /\ \E s \in Range(file[i].who) : Fits(s, r) /\ s.hint = r.file
          => Lookup(r).level = "table"

\* Reloading a file that was not edited changes nothing, whatever the file
\* merges, resets, removes and inherits (snapshots taken in the documented
\* order; the environment of the first load is gone at the second).
ReloadIdempotent ==
    [][/\ loader = "parsing" /\ lines = <<>> /\ loader' = "dump"
       /\ counter = loads - 1 /\ file = before.file /\ InOrder(file)
       /\ loads > 2 \/ (env.free /\ Deferred = {})
       => Config' = before.config]_vars

\* Once a load is over, what a thread cached under the present counter is the
\* entry that governs the region now, if its search did not begin before the
\* counter moved (the counter is stored as it is after the search).
ResolvedIsCurrent ==
    loader = "running" =>
        \A r \in Regions :
            cache[r].entry # NoEntry /\ cache[r].counter = counter /\ cache[r].at = counter
            => cache[r].entry = Lookup(r)

\* doc/user/manifest.md:178: the hash is that of the configuration in effect,
\* "defaults applied, env overrides, reload results".
HashInEffect == loader = "running" => hash = Dump

TypeOK ==
    /\ loader \in {"start", "parsing", "environment", "dump", "running", "crashed"}
    /\ \A d \in Domains : trace[d].events \subseteq Installed[d]
    /\ Len(table) <= TableSize
    /\ Cardinality(DOMAIN knobs) <= KnobTable
    /\ section.at \in Seq(DOMAIN table)
    /\ section.unit # 0 => section.unit \in DOMAIN punits[section.dom]
    /\ \A r \in Regions : cache[r].entry.level = "table" => cache[r].entry.at \in DOMAIN table

=============================================================================
