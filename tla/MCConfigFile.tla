---------------------------- MODULE MCConfigFile ----------------------------
(***************************************************************************)
(* Instances of ConfigFile for TLC: files put together from sections.      *)
(***************************************************************************)
EXTENDS ConfigFile

TwoDomains == {"omp", "mpi"}
OneInstalled == [d \in TwoDomains |-> {"begin", "end"}]
AllTracing == [d \in TwoDomains |-> "TRACING"]
UnitsTo4 == [d \in TwoDomains |-> 0 .. 3]
TwoRegions == {[code |-> "A", dom |-> "omp", name |-> "", file |-> ""],
               [code |-> "B", dom |-> "mpi", name |-> "f", file |-> "x"]}

FreeEnv == [free |-> TRUE, mode |-> [d \in TwoDomains |-> Unset],
            interval |-> [d \in TwoDomains |-> -1], num |-> <<>>, timeout |-> -1,
            clauses |-> <<>>]
SetEnv == [free |-> FALSE, mode |-> [d \in TwoDomains |-> IF d = "omp" THEN "OFF" ELSE Unset],
           interval |-> [d \in TwoDomains |-> IF d = "mpi" THEN 5 ELSE -1],
           num |-> [f \in {"max_num_traces"} |-> 9], timeout |-> 30,
           clauses |-> <<[on |-> "all", mode |-> "STANDBY"]>>]
BothEnvs == {FreeEnv, SetEnv}

H(action, target) == [action |-> action, target |-> target, dom |-> "none", who |-> <<>>,
                      ids |-> <<>>, inherit |-> {}, limit |-> <<>>]
D(action, target, d) == [H(action, target) EXCEPT !.dom = d]
L(action, who) == [H(action, "Lexgion") EXCEPT !.who = who]
At(a) == [code |-> a, dom |-> AnyDomain, hint |-> "", name |-> ""]
Of(d, hint, n) == [code |-> Null, dom |-> d, hint |-> hint, name |-> n]
To(lo, hi) == <<[lo |-> lo, hi |-> hi]>>

Num(f, v) == [key |-> "num", field |-> f, value |-> v]
Mode(v) == [key |-> "trace_mode", mode |-> v]
Event(e, on) == [key |-> "Event", event |-> e, on |-> on]
DomEvent(d, e, on) == [key |-> "Domain.Event", dom |-> d, event |-> e, on |-> on]
Sampling(f, v, good) == [key |-> "sampling", field |-> f, value |-> v, good |-> good]

\* The sections that make up the files, in the order of the documentation.
Blocks == <<
  <<D("SET", "D.tracing", "omp"), Mode("MONITORING"), Event("begin", FALSE),
    Event("other", TRUE)>>,
  <<D("RESET", "D.tracing", "omp")>>,
  <<D("REMOVE", "D.tracing", "omp"), Mode("OFF")>>,
  <<D("SET", "D.tracing", "none"), Mode("OFF")>>,
  <<D("SET", "D.tracing", "mpi"),
    [key |-> "Domain.PunitKind", dom |-> "mpi", lo |-> 0, hi |-> 2],
    [key |-> "device_activity", policy |-> "leader_per_node", good |-> TRUE]>>,
  <<D("SET", "D.sampling", "mpi"), Sampling("interval_us", 7, TRUE),
    Sampling("max_depth", 0, FALSE), Sampling("output", 0, FALSE)>>,
  <<D("RESET", "D.sampling", "mpi"), Sampling("interval_us", 8, TRUE)>>,
  <<D("SET", "D.default", "omp"), Mode("OFF")>>,
  <<[D("SET", "D.Kind", "mpi") EXCEPT !.ids = To(0, 3), !.inherit = {"mpi"},
        !.limit = <<[dom |-> "omp", ids |-> To(1, 1)]>>], Event("end", FALSE)>>,
  <<[D("REMOVE", "D.Kind", "mpi") EXCEPT !.ids = To(0, 2)]>>,
  <<[D("SET", "D.Kind", "mpi") EXCEPT !.ids = To(2, 1)], Event("end", FALSE)>>,
  <<D("REMOVE", "D.Kind(*)", "mpi")>>,
  <<H("SET", "Lexgion.default"), Num("max_num_traces", 2),
    [key |-> "window_end_action",
     clauses |-> <<[on |-> "introspect"], [on |-> "mode", dom |-> "omp", mode |-> "OFF"],
                   [on |-> "policy", dom |-> "mpi", policy |-> "on"]>>],
    [key |-> "window_timeout", value |-> 60]>>,
  <<H("RESET", "Lexgion.default")>>,
  <<[D("SET", "Lexgion(D).default", "mpi") EXCEPT !.inherit = {"omp"}],
    Num("tracing_rate", 3), DomEvent("mpi", "end", FALSE)>>,
  <<D("RESET", "Lexgion(D).default", "mpi")>>,
  <<[L("SET", <<At("A"), At("B")>>) EXCEPT !.inherit = {"omp"},
        !.limit = <<[dom |-> "mpi", ids |-> To(0, 0)]>>],
    Num("max_num_traces", 5), [key |-> "window_end_trigger", value |-> "all"]>>,
  <<L("SET", <<At("A")>>), Num("tracing_rate", 4)>>,
  <<L("REMOVE", <<At("A"), Of(AnyDomain, "", "f")>>), Num("tracing_rate", 8)>>,
  <<L("RESET", <<At("B")>>)>>,
  <<L("SET", <<Of("mpi", "", "f"), Of("none", "", "g")>>), Num("max_num_traces", 6)>>,
  <<L("SET", <<Of(AnyDomain, "x", "f")>>), Num("max_num_traces", 7)>>,
  <<H("SET", "knob"), [key |-> "knob", name |-> "k", value |-> 1]>>,
  <<H("SET", "energy"), [key |-> "measure", policy |-> "on", good |-> TRUE]>>,
  <<H("SET", "manifest"), [key |-> "interval", value |-> 3]>> >>

\* Any section or two in order, three of those on lexgions, and a few files in
\* no order.
LexgionBlocks == 13 .. 22
SomeFiles ==
    {<<>>} \cup {Blocks[i] : i \in DOMAIN Blocks}
    \cup {Blocks[i] \o Blocks[j] : <<i, j>> \in {t \in (DOMAIN Blocks) \X (DOMAIN Blocks) : t[1] <= t[2]}}
    \cup {Blocks[i] \o Blocks[j] \o Blocks[k] : <<i, j, k>> \in
            {t \in LexgionBlocks \X LexgionBlocks \X LexgionBlocks : t[1] < t[2] /\ t[2] < t[3]}}
    \cup {Blocks[21] \o Blocks[i] : i \in {1, 9, 13, 15}}
    \cup {<<D("SET", "Lexgion(D).default", "none"), Num("tracing_rate", 3)>>,
          <<D("RESET", "D.Kind", "mpi"), Event("end", FALSE)>>,
          <<L("SET", <<Of("mpi", "x", "f"), Of(AnyDomain, "", "f")>>), Num("tracing_rate", 2),
            L("SET", <<Of(AnyDomain, "", "f")>>), Num("tracing_rate", 3),
            Num("max_num_traces", 4)>>}
SomeEdits == {Blocks[18], Blocks[19], Blocks[21]}
TwoFilesOneName ==
    {<<L("SET", <<Of("mpi", "y", "f")>>), Num("max_num_traces", 2),
       L("SET", <<Of("mpi", "x", "f")>>), Num("max_num_traces", 7)>>}
FewFiles == {<<>>, Blocks[1], Blocks[6]}
=============================================================================
