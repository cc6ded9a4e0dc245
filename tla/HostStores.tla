------------------------------ MODULE HostStores ------------------------------
(***************************************************************************)
(* What commands work on, on the render thread of crates/dreamgpu-host:    *)
(* one command after the other, each on one of the stores below, which     *)
(* share nothing but the thread and the budget of a share group.  A        *)
(* behaviour follows one store and its share of the budget; the others     *)
(* rest.                                                                   *)
(***************************************************************************)
EXTENDS Registry, Buffers, NameTable, Queries, Lists, TwoD, Composition

VARIABLE store   \* the store followed

storeVars == <<registryVars, bufferVars, tableVars, queriesVars, listVars, twoDVars,
               compositionVars, store>>

AllStores == {"registry", "buffers", "table", "queries", "lists", "2d", "desktop"}

(* A store that rests has one initial state.                                 *)
One(S) == CHOOSE x \in S : TRUE
Init ==
    /\ store \in AllStores
    /\ RegistryInit /\ BuffersInit /\ CompositionInit
    /\ (store # "table" => home = One([1..TableNames -> Homes])) /\ TableInit
    /\ (store # "queries" => kind = "query") /\ QueriesInit
    /\ (store # "lists" => use = One(Uses)) /\ ListsInit
    /\ (store # "2d" => batch = <<One(Commands)>>) /\ TwoDInit

RegistryStep ==
    /\ store = "registry" /\ RegistryNext
    /\ UNCHANGED <<bufferVars, tableVars, queriesVars, listVars, twoDVars,
                   compositionVars, store>>
BuffersStep ==
    /\ store = "buffers" /\ BuffersNext
    /\ UNCHANGED <<registryVars, tableVars, queriesVars, listVars, twoDVars,
                   compositionVars, store>>
TableStep ==
    /\ store = "table" /\ TableNext
    /\ UNCHANGED <<registryVars, bufferVars, queriesVars, listVars, twoDVars,
                   compositionVars, store>>
QueriesStep ==
    /\ store = "queries" /\ QueriesNext
    /\ UNCHANGED <<registryVars, bufferVars, tableVars, listVars, twoDVars,
                   compositionVars, store>>
ListsStep ==
    /\ store = "lists" /\ ListsNext
    /\ UNCHANGED <<registryVars, bufferVars, tableVars, queriesVars, twoDVars,
                   compositionVars, store>>
TwoDStep ==
    /\ store = "2d" /\ TwoDNext
    /\ UNCHANGED <<registryVars, bufferVars, tableVars, queriesVars, listVars,
                   compositionVars, store>>
DesktopStep ==
    /\ store = "desktop" /\ CompositionNext
    /\ UNCHANGED <<registryVars, bufferVars, tableVars, queriesVars, listVars,
                   twoDVars, store>>

Next ==
    \/ RegistryStep \/ BuffersStep \/ TableStep
    \/ QueriesStep \/ ListsStep \/ TwoDStep \/ DesktopStep

Spec == Init /\ [][Next]_storeVars

-----------------------------------------------------------------------------
(* Properties.                                                               *)

TypeOK ==
    /\ store \in AllStores
    /\ RegistryTypeOK /\ BuffersTypeOK /\ QueriesTypeOK /\ ListsTypeOK
    /\ TwoDTypeOK /\ CompositionTypeOK

(* Whichever step of a command is refused, by the allocator, by native GL or *)
(* by a limit, what is charged for is what there is, what is queued exists,  *)
(* and no charge passes the budget.                                          *)
MemoryAccounted ==
    TypeOK /\ BuffersAccounted /\ QueriesAccounted /\ QueueBacked /\ ListsAccounted
===============================================================================
