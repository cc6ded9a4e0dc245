------------------------------- MODULE Queries -------------------------------
(***************************************************************************)
(* Occlusion queries and fences of one context,                            *)
(* crates/dreamgpu-host/src/occlusion.rs: two name tables made on first    *)
(* use, native objects made on first begin or set, the queue of ended      *)
(* queries not yet reported, and the charges against the shared budget.    *)
(* Native GL completes what it was given in order; the end of a query and  *)
(* a fence are stamped with their place in that order.  Queries and fences *)
(* share nothing but the budget: a behaviour uses one kind of them.        *)
(***************************************************************************)
EXTENDS Integers, Sequences, FiniteSets, SequencesExt

CONSTANTS QueryNames,   \* names of queries and fences, 1..n; 0 follows n as a candidate
          MaxQueries,   \* DG_GL_MAX_QUERIES
          Ended,        \* length of the queue of ended queries
          MaxStamps,    \* bound on queries ended and fences set
          QueryBudget   \* units of the budget: a structure or an object is one

ASSUME QueriesAssumption ==
    {QueryNames, MaxQueries, Ended, MaxStamps, QueryBudget} \subseteq Nat \ {0}

VARIABLES kind,      \* the kind of object this behaviour uses
          q,         \* Queries of the context, with the units charged
          native,    \* native GL: query object -> stamp of its last end; misuse
          gpu,       \* stamps given out and completed
          told,      \* history: stamp of the last end or set by name; results delivered
          answer     \* what the guest was last told

queriesVars == <<kind, q, native, gpu, told, answer>>

Objects(table) == {n \in DOMAIN table.names : table.names[n].object}
NoTable == [there |-> FALSE, names |-> <<>>, next |-> 1]
NoQueries == [there |-> FALSE, query |-> NoTable, fence |-> NoTable, active |-> 0,
              ended |-> <<>>, charged |-> 0]
Silent == [kind |-> "none", names |-> <<>>, reports |-> <<>>]
NothingTold == [query |-> [n \in 1..QueryNames |-> 0], fence |-> [n \in 1..QueryNames |-> 0],
                delivered |-> {}]

QueriesInit ==
    /\ kind \in {"query", "fence"}
    /\ q = NoQueries /\ answer = Silent /\ told = NothingTold
    /\ native = [ends |-> <<>>, active |-> 0, misused |-> FALSE]
    /\ gpu = [given |-> 0, done |-> 0]

WithName(f, n, v) == [m \in DOMAIN f \union {n} |-> IF m = n THEN v ELSE f[m]]

(* charge, and what is made on first use; "refused" is what the allocator    *)
(* and native GL deny this call.                                             *)
CanCharge(s) == s.charged < QueryBudget
Makes(s, what, refused) == CanCharge(s) /\ what \notin refused
Ensured(s, refused) ==
    IF s.there \/ ~Makes(s, "state", refused) THEN s
    ELSE [s EXCEPT !.there = TRUE, !.charged = @ + 1]
Tabled(s, k, refused) ==
    IF ~s.there \/ s[k].there \/ ~Makes(s, "table", refused) THEN s
    ELSE [s EXCEPT ![k].there = TRUE, !.charged = @ + 1]

Reserved == [object |-> FALSE, native |-> 0, sync |-> 0, signaled |-> FALSE]
Obtained(s, k, n) ==
    IF ~s[k].there \/ n \in DOMAIN s[k].names
         \/ Cardinality(DOMAIN s[k].names) >= MaxQueries THEN s
    ELSE [s EXCEPT ![k].names = WithName(@, n, Reserved)]

(* retire and queue.  The faulty variant keeps what was reported.            *)
RetireNot(ended, n) == ended
Retired(ended, n) == RemoveFirst(ended, n)
RetiredAll(ended, ns) == FoldLeft(Retired, ended, ns)
Queued(ended, n) == Append(IF Len(ended) = Ended THEN Tail(ended) ELSE ended, n)

-----------------------------------------------------------------------------
(* Commands.                                                                 *)

(* BeginQuery.  A name whose object cannot be made is forgotten again.       *)
QueryRefusals == {{}} \union {{x} : x \in {"state", "table", "native"}}

BeginQuery == \E n \in 0..QueryNames, refused \in QueryRefusals :
    LET s == Ensured(q, refused)
        t == Tabled(s, "query", refused)
        o == Obtained(t, "query", n)
        e == o.query.names[n]
        id == CHOOSE i \in 1..(MaxQueries + 1) : i \notin DOMAIN native.ends
        begun(name) == [o EXCEPT !.query.names[n] = [e EXCEPT !.object = TRUE, !.native = name],
                                 !.charged = IF e.object THEN @ ELSE @ + 1,
                                 !.ended = Retired(@, n), !.active = n]
    IN /\ \/ /\ ~s.there \/ s.active # 0 \/ n = 0
             /\ q' = s /\ UNCHANGED native
          \/ /\ s.there /\ s.active = 0 /\ n # 0
             /\ IF n \notin DOMAIN o.query.names THEN q' = t /\ UNCHANGED native
                ELSE IF e.object
                  THEN /\ q' = begun(e.native)
                       /\ native' = [native EXCEPT !.active = e.native,
                                                   !.misused = @ \/ native.active # 0]
                ELSE IF CanCharge(o) /\ "native" \notin refused
                  THEN /\ q' = begun(id)
                       /\ native' = [native EXCEPT !.active = id, !.ends = WithName(@, id, 0),
                                                   !.misused = @ \/ native.active # 0]
                ELSE q' = t /\ UNCHANGED native
       /\ answer' = Silent
       /\ UNCHANGED <<gpu, told>>

EndQuery ==
    /\ gpu.given < MaxStamps
    /\ IF q.active = 0 THEN UNCHANGED <<q, native, gpu, told>>
       ELSE /\ q' = [q EXCEPT !.ended = Queued(@, q.active), !.active = 0]
            /\ gpu' = [gpu EXCEPT !.given = @ + 1]
            /\ native' = [native EXCEPT !.ends[native.active] = gpu.given + 1, !.active = 0]
            /\ told' = [told EXCEPT !.query[q.active] = gpu.given + 1]
    /\ answer' = Silent

(* SetFenceNV.  Without a native sync object everything completes now.       *)
SetAgain(e, sync) == [e EXCEPT !.object = TRUE, !.sync = sync, !.signaled = (sync = 0)]

SetFence == \E n \in 0..QueryNames, refused \in QueryRefusals :
    LET t == Tabled(Ensured(q, refused), "fence", refused)
        o == Obtained(t, "fence", n)
        e == o.fence.names[n]
        stamp == gpu.given + 1
        made == "native" \notin refused
    IN /\ gpu.given < MaxStamps
       /\ IF n = 0 THEN UNCHANGED <<q, gpu, told>>
          ELSE IF n \notin DOMAIN o.fence.names \/ (~e.object /\ ~CanCharge(o))
            THEN q' = t /\ UNCHANGED <<gpu, told>>
          ELSE /\ q' = [o EXCEPT !.fence.names[n] = SetAgain(e, IF made THEN stamp ELSE 0),
                                 !.charged = IF e.object THEN @ ELSE @ + 1]
               /\ gpu' = [given |-> stamp, done |-> IF made THEN gpu.done ELSE stamp]
               /\ told' = [told EXCEPT !.fence[n] = stamp]
       /\ answer' = Silent /\ UNCHANGED native

(* DeleteQueries, refused while a query is active, and DeleteFencesNV.       *)
Deleting(s, k, gone) ==
    LET left == [n \in DOMAIN s[k].names \ gone |-> s[k].names[n]]
    IN [s EXCEPT ![k].names = left,
                 !.charged = @ - Cardinality(Objects(s[k]) \intersect gone),
                 !.ended = IF k = "query" THEN RetiredAll(@, SetToSeq(gone)) ELSE @]
(* Queries are not deleted while one is active.                              *)
Deletes == q.there /\ (kind = "query" => q.active = 0)

Delete == \E gone \in SUBSET (1..QueryNames) :
    /\ gone # {}
    /\ IF ~Deletes THEN UNCHANGED <<q, native, told>>
       ELSE LET dead == {q[kind].names[n].native : n \in Objects(q[kind]) \intersect gone}
            IN /\ q' = Deleting(q, kind, gone)
               /\ told' = [told EXCEPT ![kind] = [n \in 1..QueryNames |->
                                                    IF n \in gone THEN 0 ELSE @[n]]]
               /\ native' = IF kind = "fence" THEN native
                            ELSE [native EXCEPT
                                   !.ends = [i \in DOMAIN @ \ dead |-> @[i]],
                                   !.misused = @ \/ native.active \in dead]
    /\ answer' = Silent /\ UNCHANGED gpu

-----------------------------------------------------------------------------
(* Questions.                                                                *)

(* GenQueries and GenFencesNV: candidates from "next" on, which wraps.       *)
Candidates(table) ==
    [k \in 1..(2 * (QueryNames + 1)) |-> (table.next + k - 1) % (QueryNames + 1)]
Free(table, c) == c # 0 /\ c \notin DOMAIN table.names
Fresh(table, count) ==
    LET ks == {k \in 1..(QueryNames + 1) : Free(table, Candidates(table)[k])}
    IN {k \in ks : Cardinality({j \in ks : j < k}) < count}

Generate == \E count \in 1..2, refused \in QueryRefusals :
    LET t == Tabled(Ensured(q, refused), kind, refused)
        table == t[kind]
        ks == Fresh(table, count)
        names == {Candidates(table)[k] : k \in ks}
        last == CHOOSE k \in ks : \A j \in ks : j <= k
    IN /\ IF kind = "query" /\ q.there /\ q.active # 0 THEN UNCHANGED <<q, answer>>
          ELSE IF ~table.there \/ count > MaxQueries - Cardinality(DOMAIN table.names)
            THEN q' = t /\ answer' = Silent
          ELSE /\ q' = [t EXCEPT
                    ![kind].names = [n \in DOMAIN @ \union names |->
                                       IF n \in names THEN Reserved ELSE @[n]],
                    ![kind].next = Candidates(table)[last + 1]]
               /\ answer' = [Silent EXCEPT !.kind = kind, !.names = SetToSeq(names)]
       /\ UNCHANGED <<native, gpu, told>>

(* GetQueryObjectuiv: the asked query, then the ended ones before it that    *)
(* completed, as many as were asked for, up to the first that is pending.    *)
Available(n, done) == native.ends[q.query.names[n].native] <= done
Reportable(ended, n, done) ==
    LET barriers == {k \in DOMAIN ended : ended[k] = n \/ ~Available(ended[k], done)}
    IN IF barriers = {} THEN ended
       ELSE SubSeq(ended, 1, (CHOOSE k \in barriers : \A j \in barriers : k <= j) - 1)

Result(n) == <<n, native.ends[q.query.names[n].native]>>
(* A query that is active again is not asked of native GL.                   *)
Askable(n) == q.there /\ n \in Objects(q.query) /\ q.active # n

GetQueryObject == \E n \in 1..QueryNames, wait \in BOOLEAN, reports \in 0..(Ended - 1) :
    IF ~Askable(n) THEN UNCHANGED <<q, native, gpu, told>> /\ answer' = Silent
    ELSE LET stamp == native.ends[q.query.names[n].native]
             ready == wait \/ Available(n, gpu.done)
             done == IF ready /\ gpu.done < stamp THEN stamp ELSE gpu.done
             ended == IF ready THEN Retired(q.ended, n) ELSE q.ended
             all == Reportable(ended, n, done)
             more == SubSeq(all, 1, IF Len(all) < reports THEN Len(all) ELSE reports)
             left == RetiredAll(ended, more)
             results == [k \in DOMAIN more |-> Result(more[k])]
         IN /\ q' = [q EXCEPT !.ended = left]
            /\ gpu' = [gpu EXCEPT !.done = done]
            /\ answer' = [Silent EXCEPT !.kind = "result",
                                        !.names = IF ready THEN Result(n) ELSE <<>>,
                                        !.reports = results]
            /\ told' = [told EXCEPT !.delivered = @
                          \union (IF ready THEN {stamp} ELSE {}) \union {r[2] : r \in Range(results)}]
            /\ native' = [native EXCEPT !.misused = @ \/ native.active = q.query.names[n].native]

(* TestFenceNV, GetFenceivNV of the status, and FinishFenceNV, which waits.  *)
Signal(e) == [e EXCEPT !.signaled = TRUE, !.sync = 0]
TestFence == \E n \in 1..QueryNames, wait \in BOOLEAN :
    /\ IF ~(q.there /\ n \in Objects(q.fence)) THEN UNCHANGED <<q, gpu>> /\ answer' = Silent
       ELSE LET e == q.fence.names[n]
                ready == wait \/ e.signaled \/ e.sync <= gpu.done
            IN /\ q' = IF ready THEN [q EXCEPT !.fence.names[n] = Signal(e)] ELSE q
               /\ gpu' = IF ready /\ ~e.signaled /\ gpu.done < e.sync
                           THEN [gpu EXCEPT !.done = e.sync] ELSE gpu
               /\ answer' = IF ready THEN [Silent EXCEPT !.kind = "signaled", !.names = <<n>>]
                            ELSE Silent
    /\ UNCHANGED <<native, told>>

-----------------------------------------------------------------------------

(* release, with the last use of the context.                                *)
ReleaseQueries ==
    LET objects == Cardinality(Objects(q.query)) + Cardinality(Objects(q.fence))
        tables == Cardinality({k \in {"query", "fence"} : q[k].there})
        dead == {q.query.names[n].native : n \in Objects(q.query)}
    IN /\ q.there
       /\ q' = [NoQueries EXCEPT !.charged = q.charged - objects - tables - 1]
       /\ native' = [native EXCEPT !.ends = [i \in DOMAIN @ \ dead |-> @[i]], !.active = 0]
       /\ told' = [NothingTold EXCEPT !.delivered = told.delivered]
       /\ answer' = Silent /\ UNCHANGED gpu

NativeCompletes ==
    /\ gpu.done < gpu.given
    /\ gpu' = [gpu EXCEPT !.done = @ + 1]
    /\ UNCHANGED <<q, native, told, answer>>

QueriesNext ==
    /\ \/ kind = "query" /\ (BeginQuery \/ EndQuery \/ GetQueryObject)
       \/ kind = "fence" /\ (SetFence \/ TestFence)
       \/ Delete \/ Generate \/ ReleaseQueries \/ NativeCompletes
    /\ UNCHANGED kind

-----------------------------------------------------------------------------
(* Properties.                                                               *)

QueriesTypeOK ==
    /\ q.active \in 0..QueryNames /\ Len(q.ended) <= Ended /\ q.charged \in 0..QueryBudget
    /\ \A k \in {"query", "fence"} :
         /\ DOMAIN q[k].names \subseteq 1..QueryNames
         /\ Cardinality(DOMAIN q[k].names) <= MaxQueries
    /\ gpu.done \in 0..gpu.given

(* Whatever failed half-way, the budget is charged for exactly what exists,  *)
(* and native GL holds exactly the queries the table names: nothing leaks.   *)
QueriesAccounted ==
    /\ q.charged = (IF q.there THEN 1 ELSE 0)
                   + Cardinality({k \in {"query", "fence"} : q[k].there})
                   + Cardinality(Objects(q.query)) + Cardinality(Objects(q.fence))
    /\ DOMAIN native.ends = {q.query.names[n].native : n \in Objects(q.query)}

(* A report delivers the result of the last begin and end of the query it    *)
(* names, never that of an earlier use of the name, and only when it is      *)
(* complete.                                                                 *)
ReportsCurrent == \A r \in Range(answer.reports) :
    r[2] = told.query[r[1]] /\ r[2] \in 1..gpu.done

(* No result is reported twice, or after it was asked for; reports come in   *)
(* the order of the ends.                                                    *)
ReportedOnce == [][ answer' # answer =>
    \A k \in DOMAIN answer'.reports :
        /\ answer'.reports[k][2] \notin told.delivered
        /\ \A j \in DOMAIN answer'.reports :
             j < k => answer'.reports[j][2] < answer'.reports[k][2] ]_queriesVars

(* Every queued name has a query object that is not active, once: the code   *)
(* asserts it when it reports.                                               *)
QueueBacked ==
    /\ Range(q.ended) \subseteq Objects(q.query) \ {q.active}
    /\ IsInjective(q.ended)

(* Native GL is never asked to begin a second query, or for the result or    *)
(* the deletion of the active one.                                           *)
NativeUnharmed == ~native.misused

(* A fence is reported as passed only when everything before its last set    *)
(* has completed.                                                            *)
FenceHonest == \A n \in Range(answer.names) :
    answer.kind = "signaled" => told.fence[n] <= gpu.done

(* Names handed out were unused, also after the counter wrapped.             *)
GeneratedUnused == [][ answer'.kind \in {"query", "fence"} /\ answer' # answer =>
    \A n \in Range(answer'.names) : n \notin DOMAIN q[answer'.kind].names ]_queriesVars

(* What the queue of ended queries, its reports and the fences promise.      *)
QueriesSound == []ReportsCurrent /\ []NativeUnharmed /\ []FenceHonest
                /\ ReportedOnce /\ GeneratedUnused
=============================================================================
