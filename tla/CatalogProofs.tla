--------------------------- MODULE CatalogProofs ----------------------------
(***************************************************************************)
(* Machine-checked theorems of module Catalog, for every set of tables and *)
(* views and every bound: the type invariant, and, when no drop overlaps a *)
(* create_view or a first build, that the publication keeps what the views *)
(* need and that nothing is left of a dropped view; and, when moreover no  *)
(* refresh takes a view along that was never populated, that the reference *)
(* counts of the shadows are the join views in use.                        *)
(***************************************************************************)
EXTENDS Catalog, OrderProofs, FiniteSetTheorems

-----------------------------------------------------------------------------
(* Types.                                                                  *)

\* Using up one more of a bound.
LEMMA UsedType ==
    ASSUME used \in Budget
    PROVE  /\ [used EXCEPT !.faults = @ + 1] \in Budget
           /\ [used EXCEPT !.refreshes = @ + 1] \in Budget
<1>1. used.faults + 1 \in Nat /\ used.refreshes + 1 \in Nat
    BY DEF Budget
<1>. QED
    BY <1>1 DEF Budget

\* The number of references given back is a number.
LEMMA ReleasedType ==
    ASSUME NEW t, NEW S, NEW P, S \subseteq Views
    PROVE  Released(t, S, P) \in Nat
<1>. DEFINE R == {v \in S \cap P : IsJoin(v) /\ t \in Rels[v]}
<1>1. IsFiniteSet(Views)
    BY FS_Interval, CatalogAssumption DEF Views
<1>2. R \subseteq Views
    OBVIOUS
<1>3. IsFiniteSet(R)
    BY <1>1, <1>2, FS_Subset
<1>. QED
    BY <1>3, FS_CardinalityType DEF Released

\* What forget_view (bootstrap.sql) leaves of a shadow.
LEMMA ShadowAfterForgetType ==
    ASSUME CatalogTypeOK, NEW t \in Tables, NEW S, NEW P, S \subseteq Views
    PROVE  ShadowAfterForget(t, S, P) \in ShadowRow
<1>1. shadow[t] \in ShadowRow /\ NoShadow \in ShadowRow
    BY DEF CatalogTypeOK, ShadowRow, NoShadow
<1>2. Released(t, S, P) \in Nat
    BY ReleasedType
<1>3. CASE shadow[t].exists /\ Released(t, S, P) # 0 /\ ~ (shadow[t].refs <= Released(t, S, P))
  <2>. DEFINE n == shadow[t].refs - Released(t, S, P)
  <2>1. shadow[t].refs \in Nat
      BY <1>1 DEF ShadowRow
  <2>2. n \in Nat /\ n > 0
      BY <1>2, <1>3, <2>1
  <2>3. [shadow[t] EXCEPT !.refs = n] \in ShadowRow
      BY <1>1, <1>3, <2>2 DEF ShadowRow
  <2>. QED
      BY <1>3, <2>3, Zenon DEF ShadowAfterForget
<1>. QED
    BY <1>1, <1>3 DEF ShadowAfterForget

\* What a population (shadow.rs ensure, rebuild) leaves of a shadow.
LEMMA ShadowAfterBuildType ==
    ASSUME CatalogTypeOK, NEW t \in Tables
    PROVE  ShadowAfterBuild(t) \in ShadowRow
<1>1. shadow[t] \in ShadowRow
    BY DEF CatalogTypeOK
<1>2. [exists |-> TRUE, refs |-> 1] \in ShadowRow
    BY DEF ShadowRow
<1>3. [shadow[t] EXCEPT !.refs = @ + 1] \in ShadowRow \/ ~shadow[t].exists
  <2>1. shadow[t].refs + 1 \in Nat /\ shadow[t].refs + 1 > 0
      BY <1>1 DEF ShadowRow
  <2>. QED
      BY <1>1, <2>1 DEF ShadowRow
<1>. QED
    BY <1>1, <1>2, <1>3 DEF ShadowAfterBuild

\* The calls of sessions and the drops (api.rs, bootstrap.sql) keep the types.
LEMMA SessionsType ==
    ASSUME CatalogTypeOK, Sessions
    PROVE  CatalogTypeOK'
<1>. USE DEF CatalogTypeOK
<1>1. ASSUME NEW v \in Views, CreateReads(v) PROVE CatalogTypeOK'
  <2>1. creating' \in [on : BOOLEAN, view : Nat, missing : SUBSET Tables] /\ creating'.view \in Views
      BY <1>1, CatalogAssumption DEF CreateReads, Views
  <2>. QED
      BY <1>1, <2>1 DEF CreateReads, workerVars
<1>2. CASE CreateCommits
  <2>1. NoCreate \in [on : BOOLEAN, view : Nat, missing : SUBSET Tables] /\ ~NoCreate.on
      BY DEF NoCreate
  <2>2. status' \in [Views -> Statuses]
      BY <1>2 DEF CreateCommits, Statuses
  <2>. QED
      BY <1>2, <2>1, <2>2 DEF CreateCommits, workerVars
<1>3. ASSUME NEW v \in Views, Refresh(v) PROVE CatalogTypeOK'
  <2>1. status' \in [Views -> Statuses]
      BY <1>3 DEF Refresh, Statuses
  <2>2. used' \in Budget
      BY <1>3, UsedType DEF Refresh
  <2>3. published' \subseteq Tables
      BY <1>3, CatalogAssumption DEF Refresh
  <2>. QED
      BY <1>3, <2>1, <2>2, <2>3 DEF Refresh, apiVars, workerVars
<1>4. ASSUME NEW v \in Views, DropReads(v) PROVE CatalogTypeOK'
  <2>1. dropping' \in [on : BOOLEAN, view : Nat, populated : BOOLEAN] /\ dropping'.view \in Views
      BY <1>4 DEF DropReads, Views
  <2>. QED
      BY <1>4, <2>1 DEF DropReads, workerVars
<1>5. CASE DropCommits
  <2>1. NoDrop \in [on : BOOLEAN, view : Nat, populated : BOOLEAN] /\ ~NoDrop.on
      BY DEF NoDrop
  <2>. DEFINE S == {dropping.view}
              P == IF dropping.populated THEN S ELSE {}
  <2>2. S \subseteq Views
      BY <1>5 DEF DropCommits
  <2>3. Forget(S, P) /\ shadow' = [t \in Tables |-> ShadowAfterForget(t, S, P)]
      BY <1>5 DEF DropCommits
  <2>. HIDE DEF S, P
  <2>4. shadow' \in [Tables -> ShadowRow]
      BY <2>2, <2>3, ShadowAfterForgetType
  <2>5. status' \in [Views -> Statuses] /\ built' \subseteq Views /\ conflict' \in BOOLEAN
      BY <2>2, <2>3 DEF Forget, Statuses, ConflictsWith
  <2>6. /\ published' \subseteq published
        /\ dropping' = NoDrop
        /\ UNCHANGED <<base, populated, creating, pc, todo, asLoaded, grp, used>>
      BY <1>5 DEF DropCommits
  <2>. QED
      BY <2>1, <2>4, <2>5, <2>6
<1>6. ASSUME NEW t \in Tables, DropBase(t) PROVE CatalogTypeOK'
  <2>. DEFINE S == {v \in Views : HasRow(v) /\ t \in Rels[v]}
              P == {v \in Views : populated[v]}
  <2>0. S \subseteq Views
      OBVIOUS
  <2>1. /\ Forget(S, P)
        /\ shadow' = [s \in Tables |-> IF s = t THEN NoShadow ELSE ShadowAfterForget(s, S, P)]
      BY <1>6 DEF DropBase
  <2>. HIDE DEF S, P
  <2>2. shadow' \in [Tables -> ShadowRow]
    <3>1. NoShadow \in ShadowRow
        BY DEF NoShadow, ShadowRow
    <3>. QED
        BY <2>0, <2>1, <3>1, ShadowAfterForgetType
  <2>3. status' \in [Views -> Statuses] /\ built' \subseteq Views /\ conflict' \in BOOLEAN
      BY <2>0, <2>1 DEF Forget, Statuses, ConflictsWith
  <2>4. /\ published' \subseteq published /\ base' \subseteq base
        /\ UNCHANGED <<populated, creating, dropping, pc, todo, asLoaded, grp, used>>
      BY <1>6 DEF DropBase, apiVars
  <2>. QED
      BY <2>2, <2>3, <2>4
<1>. QED
    BY <1>1, <1>2, <1>3, <1>4, <1>5, <1>6 DEF Sessions

\* The population (populate.rs) keeps the types.
LEMMA WorkerType ==
    ASSUME CatalogTypeOK, WorkerStep
    PROVE  CatalogTypeOK'
<1>. USE DEF CatalogTypeOK
<1>1. CASE LoadPending
  <2>1. asLoaded' \in [Views -> [status : Statuses, populated : BOOLEAN]]
      BY <1>1 DEF LoadPending
  <2>. QED
      BY <1>1, <2>1 DEF LoadPending, apiVars
<1>2. CASE BeginBuild
  <2>1. NextGroup \subseteq Views
      BY DEF NextGroup, Reach
  <2>. QED
      BY <1>2, <2>1 DEF BeginBuild, apiVars
<1>3. CASE EndBuild
  <2>1. shadow' \in [Tables -> ShadowRow]
      BY <1>3, ShadowAfterBuildType DEF EndBuild
  <2>2. status' \in [Views -> Statuses] /\ populated' \in [Views -> BOOLEAN]
      BY <1>3 DEF EndBuild, Statuses
  <2>3. built' \subseteq Views
      BY <1>3 DEF EndBuild
  <2>4. /\ grp' = {} /\ conflict' = FALSE /\ pc' \in {"poll", "build"}
        /\ UNCHANGED <<base, published, creating, dropping, todo, asLoaded, used>>
      BY <1>3 DEF EndBuild, EndGroup, apiVars
  <2>. QED
      BY <2>1, <2>2, <2>3, <2>4
<1>4. CASE BuildFails
  <2>1. status' \in [Views -> Statuses]
      BY <1>4 DEF BuildFails, Statuses
  <2>2. used' \in Budget
      BY <1>4, UsedType DEF BuildFails
  <2>3. /\ grp' = {} /\ conflict' = FALSE /\ pc' \in {"poll", "build"}
        /\ UNCHANGED <<base, published, populated, built, shadow, creating, dropping, todo, asLoaded>>
      BY <1>4 DEF BuildFails, EndGroup, apiVars
  <2>. QED
      BY <2>1, <2>2, <2>3
<1>. QED
    BY <1>1, <1>2, <1>3, <1>4 DEF WorkerStep

\* Every step keeps the types.
LEMMA StepType ==
    ASSUME CatalogTypeOK, [CatalogNext]_catalogVars
    PROVE  CatalogTypeOK'
<1>1. CASE UNCHANGED catalogVars
    BY <1>1 DEF catalogVars, apiVars, workerVars, CatalogTypeOK
<1>. QED
    BY <1>1, SessionsType, WorkerType DEF CatalogNext

\* The initial state has the types.
LEMMA InitType ==
    ASSUME CatalogInit
    PROVE  CatalogTypeOK
<1>1. NoShadow \in ShadowRow
    BY DEF NoShadow, ShadowRow
<1>2. /\ NoCreate \in [on : BOOLEAN, view : Nat, missing : SUBSET Tables] /\ ~NoCreate.on
      /\ NoDrop \in [on : BOOLEAN, view : Nat, populated : BOOLEAN] /\ ~NoDrop.on
    BY DEF NoCreate, NoDrop
<1>3. used \in Budget
    BY DEF CatalogInit, Budget
<1>4. /\ status \in [Views -> Statuses] /\ populated \in [Views -> BOOLEAN]
      /\ asLoaded \in [Views -> [status : Statuses, populated : BOOLEAN]]
    BY DEF CatalogInit, Statuses
<1>. QED
    BY <1>1, <1>2, <1>3, <1>4 DEF CatalogInit, CatalogTypeOK

\* Every value of the catalog has its type in every execution; in particular
\* no reference count of a shadow that is kept is ever zero or negative
\* (bootstrap.sql forget_view), whatever overlaps.
THEOREM CatalogTypeCorrect == CatalogSpec => []CatalogTypeOK
<1>. QED
    BY InitType, StepType, PTL DEF CatalogSpec

-----------------------------------------------------------------------------
(* What the publication keeps, and what is left of a dropped view, when no *)
(* drop overlaps a create_view or a first build (CalmDdl).                 *)

\* refresh_closure (api.rs) reaches only views that have a row.
LEMMA RefreshSetHasRows ==
    ASSUME NEW v \in Views, HasRow(v)
    PROVE  \A u \in RefreshSet(v) : u \in Views /\ HasRow(u)
<1>. DEFINE S == {u \in Views : HasRow(u)}
<1>1. v \in S /\ S \in SUBSET Views /\ \A a \in S, b \in Views : SharesShadow(a, b) => b \in S
    BY DEF SharesShadow
<1>2. CASE IsJoin(v)
  <2>1. ASSUME NEW u \in Reach(Views, v, SharesShadow) PROVE u \in S
    <3>1. \A T \in SUBSET Views :
             (v \in T /\ \A a \in T, b \in Views : SharesShadow(a, b) => b \in T) => u \in T
        BY <2>1, Zenon DEF Reach
    <3>. HIDE DEF S
    <3>. QED
        BY <1>1, <3>1
  <2>. QED
      BY <1>2, <2>1 DEF RefreshSet
<1>3. CASE ~IsJoin(v)
    BY <1>3 DEF RefreshSet
<1>. QED
    BY <1>2, <1>3

\* group() (populate.rs) takes views off the queue: all those it builds were on it.
LEMMA GroupOnQueue ==
    ASSUME todo \subseteq Views, todo # {}
    PROVE  NextGroup \subseteq todo
<1>1. Least(todo) \in todo
    BY LeastIs DEF Views
<1>2. \A a \in todo, b \in Views : JoinsGroupOf(a, b) => b \in todo
    BY DEF JoinsGroupOf
<1>3. ASSUME NEW w \in NextGroup PROVE w \in todo
  <2>1. \A S \in SUBSET Views :
           (Least(todo) \in S /\ \A a \in S, b \in Views : JoinsGroupOf(a, b) => b \in S)
               => w \in S
      BY <1>3, Zenon DEF NextGroup, Reach
  <2>. QED
      BY <1>1, <1>2, <2>1
<1>. QED
    BY <1>3

\* A drop keeps what the other views need published, and a view dropped from
\* the group being built makes it fail (forget_view and prune_publication).
LEMMA ForgetSafe ==
    ASSUME CatalogTypeOK, DdlSafe, NEW S, NEW P, S \subseteq Views, ~creating.on,
           Forget(S, P), S \cap todo = {},
           \A v \in Views \ S : HasRow(v) => Rels[v] \subseteq published',
           ~creating'.on, dropping'.on => dropping' = dropping,
           UNCHANGED <<pc, todo, grp>>
    PROVE  DdlSafe'
<1>. USE DEF HasRow
<1>1. \A v \in Views : HasRow(v)' <=> HasRow(v) /\ v \notin S
    BY DEF Forget
<1>2. PublicationKept'
    BY <1>1 DEF PublicationKept, NeededIsPublished
<1>3. NoOrphans'
  <2>1. \A v \in built' : v \in built /\ v \notin S /\ v \in Views
      BY DEF Forget, CatalogTypeOK
  <2>. QED
      BY <1>1, <2>1 DEF DdlSafe, DropsNoticed, NoOrphans
<1>4. \A v \in todo' : HasRow(v)'
    BY <1>1 DEF DdlSafe, DropsNoticed, CatalogTypeOK
<1>5. \A v \in grp' : HasRow(v)' \/ conflict'
  <2>1. ASSUME NEW v \in grp, v \in S PROVE conflict'
      BY <2>1 DEF Forget, ConflictsWith
  <2>2. conflict => conflict'
      BY DEF Forget
  <2>. QED
      BY <1>1, <2>1, <2>2 DEF DdlSafe, DropsNoticed, CatalogTypeOK
<1>. QED
    BY <1>2, <1>3, <1>4, <1>5 DEF DdlSafe, DropsNoticed

\* The calls of sessions and the drops, when no DDL overlaps.
LEMMA SessionsSafe ==
    ASSUME CalmDdl, CatalogTypeOK, DdlSafe, Sessions
    PROVE  DdlSafe'
<1>. USE DEF DdlSafe, PublicationKept, DropsNoticed, NeededIsPublished, NoOrphans
<1>1. ASSUME NEW v \in Views, CreateReads(v) PROVE DdlSafe'
    BY <1>1 DEF CreateReads, workerVars, HasRow
<1>2. CASE CreateCommits
  <2>1. \A v \in Views : HasRow(v)' <=> HasRow(v) \/ v = creating.view
      BY <1>2 DEF CreateCommits, CatalogTypeOK, HasRow
  <2>2. PublicationKept'
      BY <1>2, <2>1 DEF CreateCommits, NoCreate
  <2>. QED
      BY <1>2, <2>1, <2>2 DEF CreateCommits, workerVars, CatalogTypeOK
<1>3. ASSUME NEW v \in Views, Refresh(v) PROVE DdlSafe'
  <2>1. HasRow(v)
      BY <1>3 DEF Refresh
  <2>2. \A u \in Views : HasRow(u)' <=> HasRow(u)
      BY <1>3, <2>1, RefreshSetHasRows DEF Refresh, HasRow
  <2>3. PublicationKept'
      BY <1>3, <2>2 DEF Refresh, apiVars
  <2>. QED
      BY <1>3, <2>2, <2>3 DEF Refresh, workerVars, apiVars, CatalogTypeOK
<1>4. ASSUME NEW v \in Views, DropReads(v) PROVE DdlSafe'
    BY <1>4 DEF DropReads, workerVars, HasRow
<1>5. CASE DropCommits
  <2>. DEFINE S == {dropping.view}
              P == IF dropping.populated THEN S ELSE {}
  <2>1. S \subseteq Views /\ S \cap todo = {} /\ ~creating.on
      BY <1>5 DEF DropCommits, CatalogTypeOK
  <2>2. Forget(S, P) /\ published' = {t \in published : Needed(t)}
      BY <1>5 DEF DropCommits
  <2>3. UNCHANGED <<creating, pc, todo, grp>> /\ dropping' = NoDrop
      BY <1>5 DEF DropCommits
  <2>. HIDE DEF S, P
  <2>4. \A v \in Views \ S : HasRow(v) => Rels[v] \subseteq published'
      BY <2>2 DEF Forget, Needed, HasRow
  <2>5. ~creating'.on /\ ~dropping'.on
      BY <2>1, <2>3 DEF NoDrop
  <2>. QED
      BY <2>1, <2>2, <2>3, <2>4, <2>5, ForgetSafe
<1>6. ASSUME NEW t \in Tables, DropBase(t) PROVE DdlSafe'
  <2>. DEFINE S == {v \in Views : HasRow(v) /\ t \in Rels[v]}
              P == {v \in Views : populated[v]}
  <2>1. S \subseteq Views /\ S \cap todo = {} /\ ~creating.on
      BY <1>6 DEF DropBase
  <2>2. Forget(S, P) /\ published' = {s \in published \ {t} : Needed(s)}
      BY <1>6 DEF DropBase
  <2>3. UNCHANGED <<creating, dropping, pc, todo, grp>>
      BY <1>6 DEF DropBase, apiVars
  <2>4. \A v \in Views \ S : HasRow(v) => t \notin Rels[v]
      OBVIOUS
  <2>. HIDE DEF S, P
  <2>5. \A v \in Views \ S : HasRow(v) => Rels[v] \subseteq published'
      BY <2>2, <2>4 DEF Forget, Needed, HasRow
  <2>. QED
      BY <2>1, <2>2, <2>3, <2>5, ForgetSafe
<1>. QED
    BY <1>1, <1>2, <1>3, <1>4, <1>5, <1>6 DEF Sessions

\* The population, when no DDL overlaps: what it builds has its row, because a
\* drop since the snapshot is a conflict.
LEMMA WorkerSafe ==
    ASSUME CalmDdl, CatalogTypeOK, DdlSafe, WorkerStep
    PROVE  DdlSafe'
<1>. USE DEF DdlSafe, PublicationKept, DropsNoticed, NeededIsPublished, NoOrphans
<1>1. CASE LoadPending
    BY <1>1 DEF LoadPending, apiVars, Pending, HasRow
<1>2. CASE BeginBuild
  <2>1. NextGroup \subseteq todo
      BY <1>2, GroupOnQueue DEF BeginBuild, CatalogTypeOK
  <2>. QED
      BY <1>2, <2>1 DEF BeginBuild, apiVars, HasRow
<1>3. CASE EndBuild
  <2>1. \A v \in grp : HasRow(v)
      BY <1>3 DEF EndBuild
  <2>2. \A v \in Views : HasRow(v)' <=> HasRow(v)
      BY <1>3 DEF EndBuild, HasRow
  <2>3. built' = built \cup grp /\ grp' = {} /\ (pc' = "build" => todo # {})
        /\ UNCHANGED <<published, creating, dropping, todo>>
      BY <1>3 DEF EndBuild, EndGroup, apiVars
  <2>4. PublicationKept'
      BY <2>2, <2>3
  <2>. QED
      BY <2>1, <2>2, <2>3, <2>4 DEF CatalogTypeOK
<1>4. CASE BuildFails
  <2>1. \A v \in Views : HasRow(v)' <=> HasRow(v)
      BY <1>4 DEF BuildFails, HasRow
  <2>2. grp' = {} /\ (pc' = "build" => todo # {})
        /\ UNCHANGED <<published, built, creating, dropping, todo>>
      BY <1>4 DEF BuildFails, EndGroup, apiVars
  <2>3. PublicationKept'
      BY <2>1, <2>2
  <2>. QED
      BY <2>1, <2>2, <2>3 DEF CatalogTypeOK
<1>. QED
    BY <1>1, <1>2, <1>3, <1>4 DEF WorkerStep

\* DdlSafe is inductive together with the types.
LEMMA StepSafe ==
    ASSUME CalmDdl, CatalogTypeOK, DdlSafe, [CatalogNext]_catalogVars
    PROVE  DdlSafe'
<1>1. CASE UNCHANGED catalogVars
    BY <1>1 DEF catalogVars, apiVars, workerVars, DdlSafe, PublicationKept, DropsNoticed,
                NeededIsPublished, NoOrphans, HasRow
<1>. QED
    BY <1>1, SessionsSafe, WorkerSafe DEF CatalogNext

\* It holds in the empty catalog.
LEMMA InitSafe ==
    ASSUME CatalogInit
    PROVE  DdlSafe
<1>. QED
    BY DEF CatalogInit, DdlSafe, PublicationKept, DropsNoticed, NeededIsPublished, NoOrphans,
           HasRow, NoCreate, NoDrop

\* When no drop overlaps a create_view or a first build: a create_view under way
\* adds what is missing, the queue holds views that exist, and a view dropped
\* while it is built makes its group fail.
THEOREM DdlIsSafe ==
    ASSUME CalmDdl
    PROVE  CatalogSpec => []DdlSafe
<1>1. CatalogTypeOK /\ DdlSafe /\ [CatalogNext]_catalogVars => (CatalogTypeOK /\ DdlSafe)'
    BY StepType, StepSafe
<1>2. CatalogInit => CatalogTypeOK /\ DdlSafe
    BY InitType, InitSafe
<1>. QED
    BY <1>1, <1>2, PTL DEF CatalogSpec

\* Then every table of every view in the catalog stays in the publication:
\* prune_publication (bootstrap.sql) takes out nothing a view still needs.
THEOREM NeededStaysPublished ==
    ASSUME CalmDdl
    PROVE  CatalogSpec => []NeededIsPublished
<1>1. DdlSafe => NeededIsPublished
    BY DEF DdlSafe, PublicationKept
<1>. QED
    BY <1>1, DdlIsSafe, PTL

\* And drop_view (api.rs) leaves no VIEW and no storage table, even of a view
\* whose population was under way.
THEOREM NoOrphansLeft ==
    ASSUME CalmDdl
    PROVE  CatalogSpec => []NoOrphans
<1>1. DdlSafe => NoOrphans
    BY DEF DdlSafe, DropsNoticed
<1>. QED
    BY <1>1, DdlIsSafe, PTL

-----------------------------------------------------------------------------
(* What refresh reaches, and what a group of the queue is.                 *)

\* refresh_closure (api.rs) is closed: who shares a shadow with a view it
\* refreshes is refreshed too.
LEMMA RefreshSetClosed ==
    ASSUME NEW v \in Views, NEW a \in RefreshSet(v), NEW b \in Views, SharesShadow(a, b)
    PROVE  b \in RefreshSet(v)
<1>1. CASE IsJoin(v)
  <2>1. a \in Reach(Views, v, SharesShadow)
      BY <1>1 DEF RefreshSet
  <2>2. a \in Views
      BY <2>1 DEF Reach
  <2>3. ASSUME NEW S \in SUBSET Views, v \in S,
               \A c \in S, d \in Views : SharesShadow(c, d) => d \in S
        PROVE  b \in S
    <3>1. a \in S
        BY <2>1, <2>3, Zenon DEF Reach
    <3>. QED
        BY <2>3, <3>1
  <2>4. b \in Reach(Views, v, SharesShadow)
      BY <2>3, Zenon DEF Reach
  <2>. QED
      BY <1>1, <2>4 DEF RefreshSet
<1>2. CASE ~IsJoin(v)
    BY <1>2 DEF RefreshSet, SharesShadow
<1>. QED
    BY <1>1, <1>2

\* Whoever is to be refreshed is so from before, or is one of the call's; and
\* then, if it is not alone, it was populated.
LEMMA RefreshedByCall ==
    ASSUME CatalogTypeOK, CalmRefresh, NEW v \in Views, Refresh(v), NEW a \in Views,
           NEW b \in Views, a # b, SharesShadow(a, b),
           status'[a] = "refreshing", a \in RefreshSet(v)
    PROVE  populated[a]
<1>1. b \in RefreshSet(v)
    BY RefreshSetClosed
<1>2. RefreshSet(v) # {v}
    BY <1>1
<1>3. \A u \in RefreshSet(v) : populated[u] \/ status[u] = "initializing"
    BY <1>2 DEF Refresh
<1>4. status[a] # "initializing"
    BY DEF Refresh, Pending
<1>. QED
    BY <1>3, <1>4

\* group() (populate.rs): a first build is alone in its group.
LEMMA FirstBuildAlone ==
    ASSUME todo \subseteq Views, todo # {}, QueueIsCurrent
    PROVE  \A a, b \in NextGroup : a # b => Rebuild(a)
<1>0. Least(todo) \in todo
    BY LeastIs DEF Views
<1>. DEFINE L == Least(todo)
            R == {a \in todo : Rebuild(a)}
<1>1. L \in todo /\ L \in Views
    BY <1>0
<1>2. ASSUME NEW S \in SUBSET Views, L \in S,
             \A a \in S, b \in Views : JoinsGroupOf(a, b) => b \in S
      PROVE  NextGroup \subseteq S
    BY <1>2, Zenon DEF NextGroup, Reach
<1>3. ASSUME NEW a \in todo, NEW b \in Views, JoinsGroupOf(a, b)
      PROVE  Rebuild(a) /\ Rebuild(b) /\ b \in todo
  <2>1. b \in todo /\ a # b /\ Shared(a) /\ Shared(b) /\ Rels[a] \cap Rels[b] # {}
      BY <1>3 DEF JoinsGroupOf, Views
  <2>. QED
      BY <2>1 DEF QueueIsCurrent
<1>. HIDE DEF L
<1>4. CASE Rebuild(L)
  <2>1. R \in SUBSET Views /\ L \in R
      BY <1>1, <1>4
  <2>2. \A a \in R, b \in Views : JoinsGroupOf(a, b) => b \in R
      BY <1>3
  <2>. HIDE DEF R
  <2>3. NextGroup \subseteq R
      BY <1>2, <2>1, <2>2
  <2>. QED
      BY <2>3 DEF R
<1>5. CASE ~Rebuild(L)
  <2>1. \A b \in Views : ~JoinsGroupOf(L, b)
      BY <1>1, <1>3, <1>5
  <2>2. NextGroup \subseteq {L}
      BY <1>1, <1>2, <2>1
  <2>. QED
      BY <2>2
<1>. QED
    BY <1>4, <1>5

-----------------------------------------------------------------------------
(* What drops leave of the references.                                     *)

\* The users of a table are finitely many.
LEMMA UsersFinite ==
    ASSUME NEW t
    PROVE  /\ IsFiniteSet(Users(t)) /\ Users(t) \subseteq Views
           /\ Cardinality(Users(t)) \in Nat
           /\ Cardinality(Users(t)) = 0 <=> Users(t) = {}
<1>1. IsFiniteSet(Views)
    BY FS_Interval, CatalogAssumption DEF Views
<1>2. Users(t) \in SUBSET Views
    BY DEF Users
<1>3. IsFiniteSet(Users(t))
    BY <1>1, <1>2, FS_Subset
<1>. QED
    BY <1>2, <1>3, FS_CardinalityType, FS_EmptySet

\* forget_view (bootstrap.sql): a shadow gives up the references of the users
\* that are dropped, and goes with the last one.
LEMMA ForgetCounts ==
    ASSUME CatalogTypeOK, RefsAreUsers, NEW t \in Tables, NEW S, NEW P,
           S \subseteq Views, \A v \in S : HasRow(v), \A v \in S : v \in P <=> populated[v]
    PROVE  LET left == Users(t) \ S IN
           /\ ShadowAfterForget(t, S, P).exists <=> left # {}
           /\ ShadowAfterForget(t, S, P).exists =>
                ShadowAfterForget(t, S, P).refs = Cardinality(left)
<1>. DEFINE U == Users(t)
            G == {v \in S \cap P : IsJoin(v) /\ t \in Rels[v]}
            n == Cardinality(G)
            m == Cardinality(U \ S)
<1>1. G = U \cap S
    BY DEF Users
<1>2. IsFiniteSet(U) /\ Cardinality(U) \in Nat
    BY UsersFinite
<1>3. U \ S = U \ G
    BY <1>1
<1>4. G \in SUBSET U /\ U \ S \in SUBSET U
    BY <1>1
<1>5. IsFiniteSet(G) /\ IsFiniteSet(U \ S)
    BY <1>2, <1>4, FS_Subset
<1>6. n \in Nat /\ m \in Nat
    BY <1>5, FS_CardinalityType
<1>7. m = Cardinality(U) - n
  <2>1. U \cap G = G
      BY <1>4
  <2>2. Cardinality(U \ G) = Cardinality(U) - Cardinality(U \cap G)
      BY <1>2, FS_Difference
  <2>. QED
      BY <1>3, <2>1, <2>2
<1>8. m = 0 <=> U \ S = {}
    BY <1>5, FS_EmptySet
<1>9. Released(t, S, P) = n
    BY DEF Released
<1>10. /\ shadow[t].exists <=> U # {}
       /\ shadow[t].exists => shadow[t].refs = Cardinality(U)
       /\ shadow[t] \in ShadowRow
    BY DEF RefsAreUsers, CatalogTypeOK
<1>11. U # {} <=> Cardinality(U) # 0
    BY UsersFinite
<1>. DEFINE s == shadow[t]
<1>. HIDE DEF U, G, n, m, s
<1>12. ShadowAfterForget(t, S, P) =
         IF n = 0 \/ ~s.exists THEN s
         ELSE IF s.refs <= n THEN NoShadow ELSE [s EXCEPT !.refs = @ - n]
    BY <1>9 DEF ShadowAfterForget, s
<1>13. s.exists <=> U # {}
    BY <1>10 DEF s
<1>14. s.exists => s.refs = Cardinality(U)
    BY <1>10 DEF s
<1>15. s \in ShadowRow
    BY <1>10 DEF s
<1>16. CASE n = 0 \/ ~s.exists
  <2>1. m = Cardinality(U) \/ U = {}
      BY <1>2, <1>6, <1>7, <1>13, <1>16
  <2>2. U \ S # {} <=> U # {}
      BY <1>8, <1>11, <2>1
  <2>. QED
      BY <1>12, <1>13, <1>14, <1>16, <2>1, <2>2 DEF U, m
<1>17. CASE n # 0 /\ s.exists /\ s.refs <= n
  <2>1. m = 0
      BY <1>2, <1>6, <1>7, <1>14, <1>17
  <2>2. ~ShadowAfterForget(t, S, P).exists
      BY <1>12, <1>17 DEF NoShadow
  <2>. QED
      BY <1>8, <2>1, <2>2 DEF U
<1>18. CASE n # 0 /\ s.exists /\ ~ (s.refs <= n)
  <2>1. m = s.refs - n /\ m # 0
      BY <1>2, <1>6, <1>7, <1>14, <1>18
  <2>2. ShadowAfterForget(t, S, P) = [s EXCEPT !.refs = m]
      BY <1>12, <1>18, <2>1
  <2>3. [s EXCEPT !.refs = m].exists /\ [s EXCEPT !.refs = m].refs = m
      BY <1>15, <1>18 DEF ShadowRow
  <2>. QED
      BY <1>8, <2>1, <2>2, <2>3 DEF U, m
<1>. QED
    BY <1>16, <1>17, <1>18

\* A drop (drop_view, or a base table's), once it commits.
LEMMA ForgetRefs ==
    ASSUME CatalogTypeOK, DdlSafe, RefsSafe, NEW S, NEW P, Forget(S, P),
           S \subseteq Views, \A v \in S : HasRow(v), \A v \in S : v \in P <=> populated[v],
           ~creating.on, ~creating'.on, S \cap todo = {},
           UNCHANGED <<populated, pc, todo, asLoaded, grp>>,
           \/ ~dropping'.on
           \/ dropping' = dropping /\ dropping.view \notin S,
           \A t \in Tables :
              \/ shadow'[t] = ShadowAfterForget(t, S, P)
              \/ shadow'[t] = NoShadow /\ Users(t) \subseteq S
    PROVE  RefsSafe'
<1>. USE DEF RefsSafe
<1>1. \A v \in Views : HasRow(v)' <=> HasRow(v) /\ v \notin S
    BY DEF Forget, HasRow
<1>2. \A v \in Views : status'[v] = IF v \in S THEN "dropped" ELSE status[v]
    BY DEF Forget
<1>3. \A t \in Tables : Users(t)' = Users(t) \ S
    BY <1>1 DEF Users
<1>4. RefsAreUsers'
  <2>1. ASSUME NEW t \in Tables
        PROVE  LET left == Users(t) \ S IN
               /\ shadow'[t].exists <=> left # {}
               /\ shadow'[t].exists => shadow'[t].refs = Cardinality(left)
    <3>1. CASE shadow'[t] = ShadowAfterForget(t, S, P)
        BY <3>1, ForgetCounts
    <3>2. CASE shadow'[t] = NoShadow /\ Users(t) \subseteq S
        BY <3>2 DEF NoShadow
    <3>. QED
        BY <3>1, <3>2
  <2>. QED
      BY <1>3, <2>1 DEF RefsAreUsers
<1>5. FirstBuildsAlone'
    BY <1>1, <1>2 DEF FirstBuildsAlone, SharesShadow
<1>6. QueueIsCurrent'
    BY DEF QueueIsCurrent, Rebuild, Shared
<1>7. DropIsCurrent'
    BY <1>1 DEF DropIsCurrent, CatalogTypeOK
<1>. QED
    BY <1>4, <1>5, <1>6, <1>7

-----------------------------------------------------------------------------
(* The calls of sessions.                                                  *)

\* No call but a drop touches who uses a shadow.
LEMMA UsersKept ==
    ASSUME \A v \in Views : populated[v] => (HasRow(v)' <=> HasRow(v)),
           UNCHANGED <<populated, shadow>>, RefsAreUsers
    PROVE  RefsAreUsers'
<1>1. \A t \in Tables : Users(t)' = Users(t)
    BY DEF Users
<1>. QED
    BY <1>1 DEF RefsAreUsers

\* create_view, refresh and the drops keep it.
LEMMA SessionsRefs ==
    ASSUME CalmDdl, CalmRefresh, CatalogTypeOK, DdlSafe, RefsSafe, Sessions
    PROVE  RefsSafe'
<1>. USE DEF RefsSafe
<1>1. ASSUME NEW v \in Views, CreateReads(v) PROVE RefsSafe'
  <2>1. UNCHANGED <<status, populated, shadow, dropping, workerVars>>
        /\ creating'.view = v /\ status[v] = "absent"
      BY <1>1 DEF CreateReads
  <2>2. RefsAreUsers'
      BY <2>1, UsersKept DEF HasRow
  <2>. QED
      BY <2>1, <2>2 DEF FirstBuildsAlone, QueueIsCurrent, DropIsCurrent, workerVars, HasRow,
                        SharesShadow, Rebuild, Shared
<1>2. CASE CreateCommits
  <2>1. /\ UNCHANGED <<populated, shadow, dropping, workerVars>>
        /\ creating' = NoCreate
        /\ status' = [status EXCEPT ![creating.view] = "initializing"]
        /\ status[creating.view] = "absent" /\ creating.view \in Views
        /\ ~populated[creating.view]
      BY <1>2 DEF CreateCommits, FirstBuildsAlone, CatalogTypeOK
  <2>2. \A v \in Views : v # creating.view => status'[v] = status[v]
      BY <2>1 DEF CatalogTypeOK
  <2>3. status'[creating.view] = "initializing"
      BY <2>1 DEF CatalogTypeOK
  <2>4. RefsAreUsers'
      BY <2>1, <2>2, UsersKept DEF HasRow
  <2>5. FirstBuildsAlone'
      BY <2>1, <2>2, <2>3 DEF FirstBuildsAlone, SharesShadow, HasRow, NoCreate
  <2>6. QueueIsCurrent'
      BY <2>1 DEF QueueIsCurrent, workerVars, Rebuild, Shared
  <2>7. DropIsCurrent'
      BY <2>1, <2>2, <2>3 DEF DropIsCurrent, workerVars, HasRow, CatalogTypeOK
  <2>. QED
      BY <2>4, <2>5, <2>6, <2>7
<1>3. ASSUME NEW v \in Views, Refresh(v) PROVE RefsSafe'
  <2>1. /\ HasRow(v)
        /\ UNCHANGED <<populated, shadow, creating, dropping, workerVars>>
        /\ \A u \in Views : status'[u] = IF u \in RefreshSet(v) /\ ~Pending(u)
                                         THEN "refreshing" ELSE status[u]
      BY <1>3 DEF Refresh, apiVars
  <2>2. \A u \in RefreshSet(v) : u \in Views /\ HasRow(u)
      BY <2>1, RefreshSetHasRows
  <2>3. \A u \in Views : HasRow(u)' <=> HasRow(u)
      BY <2>1, <2>2 DEF HasRow
  <2>4. RefsAreUsers'
      BY <2>1, <2>3, UsersKept
  <2>5. ASSUME NEW a \in Views, NEW b \in Views, a # b, SharesShadow(a, b)',
               status'[a] = "refreshing", status'[b] = "refreshing"
        PROVE  populated'[a]
    <3>1. SharesShadow(a, b) /\ SharesShadow(b, a)
        BY <2>3, <2>5 DEF SharesShadow
    <3>2. CASE a \in RefreshSet(v)
        BY <1>3, <2>1, <2>5, <3>1, <3>2, RefreshedByCall
    <3>3. CASE a \notin RefreshSet(v)
      <4>1. b \notin RefreshSet(v)
          BY <3>1, <3>3, RefreshSetClosed
      <4>2. status[a] = "refreshing" /\ status[b] = "refreshing"
          BY <2>1, <2>5, <3>3, <4>1
      <4>. QED
          BY <2>1, <2>5, <3>1, <4>2 DEF FirstBuildsAlone
    <3>. QED
        BY <3>2, <3>3
  <2>6. \A u \in Views : status'[u] \in {"absent", "initializing"} => ~populated'[u]
      BY <2>1 DEF FirstBuildsAlone
  <2>7. creating'.on => status'[creating'.view] = "absent"
      BY <2>1, <2>2 DEF FirstBuildsAlone, HasRow, CatalogTypeOK
  <2>8. QueueIsCurrent'
      BY <2>1 DEF QueueIsCurrent, workerVars, Rebuild, Shared
  <2>9. DropIsCurrent'
      BY <2>1, <2>3 DEF DropIsCurrent, workerVars, CatalogTypeOK
  <2>. QED
      BY <2>4, <2>5, <2>6, <2>7, <2>8, <2>9 DEF FirstBuildsAlone
<1>4. ASSUME NEW v \in Views, DropReads(v) PROVE RefsSafe'
  <2>1. /\ UNCHANGED <<status, populated, shadow, creating, workerVars>>
        /\ HasRow(v) /\ (v \in grp => populated[v])
        /\ dropping'.view = v /\ dropping'.populated = populated[v]
      BY <1>4 DEF DropReads
  <2>2. RefsAreUsers'
      BY <2>1, UsersKept DEF HasRow
  <2>. QED
      BY <2>1, <2>2 DEF FirstBuildsAlone, QueueIsCurrent, DropIsCurrent, workerVars, HasRow,
                        SharesShadow, Rebuild, Shared
<1>5. CASE DropCommits
  <2>. DEFINE S == {dropping.view}
              P == IF dropping.populated THEN S ELSE {}
  <2>1. S \subseteq Views /\ S \cap todo = {} /\ ~creating.on
      BY <1>5 DEF DropCommits, CatalogTypeOK, DdlSafe, PublicationKept, DropsNoticed
  <2>2. \A v \in S : HasRow(v) /\ (v \in P <=> populated[v])
      BY <1>5 DEF DropCommits, DropIsCurrent
  <2>3. Forget(S, P) /\ shadow' = [t \in Tables |-> ShadowAfterForget(t, S, P)]
      BY <1>5 DEF DropCommits
  <2>4. UNCHANGED <<populated, creating, pc, todo, asLoaded, grp>> /\ ~dropping'.on
      BY <1>5 DEF DropCommits, NoDrop
  <2>. HIDE DEF S, P
  <2>. QED
      BY <2>1, <2>2, <2>3, <2>4, ForgetRefs
<1>6. ASSUME NEW t \in Tables, DropBase(t) PROVE RefsSafe'
  <2>. DEFINE S == {v \in Views : HasRow(v) /\ t \in Rels[v]}
              P == {v \in Views : populated[v]}
  <2>1. S \subseteq Views /\ S \cap todo = {} /\ ~creating.on
      BY <1>6 DEF DropBase
  <2>2. \A v \in S : HasRow(v) /\ (v \in P <=> populated[v])
      OBVIOUS
  <2>3. /\ Forget(S, P)
        /\ shadow' = [s \in Tables |-> IF s = t THEN NoShadow ELSE ShadowAfterForget(s, S, P)]
      BY <1>6 DEF DropBase
  <2>4. UNCHANGED <<populated, creating, dropping, pc, todo, asLoaded, grp>>
      BY <1>6 DEF DropBase, apiVars
  <2>5. dropping.on => dropping.view \notin S
      BY <1>6 DEF DropBase
  <2>6. Users(t) \subseteq S
      BY DEF Users
  <2>. HIDE DEF S, P
  <2>. QED
      BY <2>1, <2>2, <2>3, <2>4, <2>5, <2>6, ForgetRefs
<1>. QED
    BY <1>1, <1>2, <1>3, <1>4, <1>5, <1>6 DEF Sessions

-----------------------------------------------------------------------------
(* The population.                                                         *)

\* ensure and rebuild (shadow.rs): a first build takes one reference on every
\* shadow it uses, a rebuild none.
LEMMA BuildCounts ==
    ASSUME CatalogTypeOK, RefsSafe, NEW t \in Tables, \A v \in grp : HasRow(v)
    PROVE  LET users == Users(t) \cup ShadowUsers(t) IN
           /\ ShadowAfterBuild(t).exists <=> users # {}
           /\ ShadowAfterBuild(t).exists => ShadowAfterBuild(t).refs = Cardinality(users)
<1>. DEFINE U == Users(t)
            G == ShadowUsers(t)
<1>1. /\ shadow[t].exists <=> U # {}
      /\ shadow[t].exists => shadow[t].refs = Cardinality(U)
      /\ shadow[t] \in ShadowRow
    BY DEF RefsSafe, RefsAreUsers, CatalogTypeOK
<1>2. /\ G \subseteq grp /\ grp \subseteq Views
      /\ \A v \in G : Rebuild(v) <=> v \in U
      /\ \A a, b \in G : a # b => Rebuild(a)
    BY DEF ShadowUsers, Users, RefsSafe, QueueIsCurrent, CatalogTypeOK
<1>3. IsFiniteSet(U) /\ Cardinality(U) \in Nat
    BY UsersFinite
<1>4. CASE G = {}
    BY <1>1, <1>4 DEF ShadowAfterBuild
<1>5. CASE G # {}
  <2>1. Least(G) \in G
      BY <1>2, <1>5, LeastIs DEF Views
  <2>. DEFINE f == Least(G)
  <2>. HIDE DEF f
  <2>2. f \in G
      BY <2>1 DEF f
  <2>3. CASE Rebuild(f)
    <3>1. G \subseteq U
        BY <1>2, <2>2, <2>3
    <3>2. U \cup G = U /\ shadow[t].exists
        BY <1>1, <2>2, <3>1
    <3>3. ShadowAfterBuild(t) = shadow[t]
        BY <1>5, <2>3, <3>2 DEF ShadowAfterBuild, f
    <3>. QED
        BY <1>1, <3>2, <3>3
  <2>4. CASE ~Rebuild(f)
    <3>1. G = {f} /\ f \notin U
        BY <1>2, <2>2, <2>4
    <3>2. Cardinality(U \cup {f}) = Cardinality(U) + 1
        BY <1>3, <3>1, FS_AddElement
    <3>3. CASE ~shadow[t].exists
      <4>1. U = {} /\ Cardinality(U) = 0
          BY <1>1, <3>3, FS_EmptySet
      <4>2. ShadowAfterBuild(t) = [exists |-> TRUE, refs |-> 1]
          BY <1>5, <3>3 DEF ShadowAfterBuild
      <4>. QED
          BY <3>1, <3>2, <4>1, <4>2
    <3>4. CASE shadow[t].exists
      <4>1. ShadowAfterBuild(t) = [shadow[t] EXCEPT !.refs = @ + 1]
          BY <1>5, <2>4, <3>4 DEF ShadowAfterBuild, f
      <4>2. ShadowAfterBuild(t).exists /\ ShadowAfterBuild(t).refs = Cardinality(U) + 1
          BY <1>1, <3>4, <4>1 DEF ShadowRow
      <4>. QED
          BY <3>1, <3>2, <4>2
    <3>. QED
        BY <3>3, <3>4
  <2>. QED
      BY <2>3, <2>4
<1>. QED
    BY <1>4, <1>5

\* Reading the queue, and building or failing its groups.
LEMMA WorkerRefs ==
    ASSUME CalmDdl, CalmRefresh, CatalogTypeOK, DdlSafe, RefsSafe, WorkerStep
    PROVE  RefsSafe'
<1>. USE DEF RefsSafe
<1>1. CASE LoadPending
  <2>1. /\ UNCHANGED <<status, populated, shadow, creating, dropping, grp>>
        /\ grp = {} /\ pc' = "build"
        /\ todo' = {v \in Views : Pending(v)}
      BY <1>1 DEF LoadPending, apiVars, QueueIsCurrent
  <2>0. ASSUME NEW v \in Views
        PROVE  /\ Rebuild(v)' <=> status[v] = "refreshing" /\ populated[v]
               /\ Shared(v)' <=> status[v] = "refreshing" /\ IsJoin(v)
    <3>1. asLoaded' = [u \in Views |-> [status |-> status[u], populated |-> populated[u]]]
        BY <1>1 DEF LoadPending
    <3>2. asLoaded'[v].status = status[v] /\ asLoaded'[v].populated = populated[v]
        BY <3>1
    <3>. QED
        BY <3>2 DEF Rebuild, Shared
  <2>2. RefsAreUsers'
      BY <2>1, UsersKept DEF HasRow
  <2>3. FirstBuildsAlone'
      BY <2>1 DEF FirstBuildsAlone, SharesShadow, HasRow
  <2>4. \A v \in todo' : Rebuild(v)' <=> populated'[v]
      BY <2>0, <2>1 DEF Pending, FirstBuildsAlone
  <2>5. ASSUME NEW a \in todo', NEW b \in todo', a # b, Shared(a)', Shared(b)',
               Rels[a] \cap Rels[b] # {}
        PROVE  Rebuild(a)'
    <3>1. a \in Views /\ b \in Views
        BY <2>1
    <3>2. IsJoin(a) /\ IsJoin(b) /\ status[a] = "refreshing" /\ status[b] = "refreshing"
        BY <2>0, <2>5, <3>1
    <3>3. SharesShadow(a, b)
        BY <2>5, <3>2 DEF SharesShadow, HasRow
    <3>4. populated[a]
        BY <2>5, <3>1, <3>2, <3>3 DEF FirstBuildsAlone
    <3>. QED
        BY <2>0, <3>1, <3>2, <3>4
  <2>6. QueueIsCurrent'
      BY <2>1, <2>4, <2>5 DEF QueueIsCurrent
  <2>7. DropIsCurrent'
      BY <2>1 DEF DropIsCurrent, HasRow
  <2>. QED
      BY <2>2, <2>3, <2>6, <2>7
<1>2. CASE BeginBuild
  <2>1. /\ UNCHANGED <<status, populated, shadow, creating, dropping, asLoaded>>
        /\ grp' = NextGroup /\ todo' = todo \ NextGroup /\ pc = "build" /\ pc' = "building"
      BY <1>2 DEF BeginBuild, apiVars
  <2>2. todo \subseteq Views /\ todo # {}
      BY <2>1 DEF DdlSafe, DropsNoticed, CatalogTypeOK
  <2>3. NextGroup \subseteq todo /\ \A a, b \in NextGroup : a # b => Rebuild(a)
      BY <2>2, GroupOnQueue, FirstBuildAlone
  <2>4. RefsAreUsers'
      BY <2>1, UsersKept DEF HasRow
  <2>5. FirstBuildsAlone'
      BY <2>1 DEF FirstBuildsAlone, SharesShadow, HasRow
  <2>6. QueueIsCurrent'
      BY <2>1, <2>3 DEF QueueIsCurrent, Rebuild, Shared
  <2>7. DropIsCurrent'
      BY <2>1, <2>3 DEF DropIsCurrent, HasRow, DdlSafe, DropsNoticed
  <2>. QED
      BY <2>4, <2>5, <2>6, <2>7
<1>3. CASE EndBuild
  <2>1. /\ UNCHANGED <<creating, dropping, todo, asLoaded>>
        /\ grp' = {}
        /\ shadow' = [t \in Tables |-> ShadowAfterBuild(t)]
      BY <1>3 DEF EndBuild, EndGroup, apiVars
  <2>2. \A v \in grp : HasRow(v)
      BY <1>3 DEF EndBuild, DdlSafe, DropsNoticed
  <2>3. \A v \in Views : /\ status'[v] = IF v \in grp THEN "live" ELSE status[v]
                         /\ populated'[v] = (populated[v] \/ v \in grp)
      BY <1>3, <2>2 DEF EndBuild
  <2>4. \A v \in Views : HasRow(v)' <=> HasRow(v)
      BY <2>2, <2>3 DEF HasRow
  <2>5. \A t \in Tables : Users(t)' = Users(t) \cup ShadowUsers(t)
      BY <2>2, <2>3, <2>4 DEF Users, ShadowUsers, CatalogTypeOK
  <2>6. RefsAreUsers'
    <3>1. \A t \in Tables : shadow'[t] = ShadowAfterBuild(t)
        BY <2>1
    <3>. QED
        BY <2>2, <2>5, <3>1, BuildCounts DEF RefsAreUsers
  <2>7. FirstBuildsAlone'
    <3>1. creating'.on => status'[creating'.view] = "absent"
        BY <2>1, <2>2, <2>3 DEF FirstBuildsAlone, HasRow, CatalogTypeOK
    <3>2. \A v \in Views : status'[v] \in {"absent", "initializing"} => ~populated'[v]
        BY <2>3 DEF FirstBuildsAlone
    <3>3. \A a, b \in Views : SharesShadow(a, b)' <=> SharesShadow(a, b)
        BY <2>4 DEF SharesShadow
    <3>4. \A a, b \in Views :
             a # b /\ SharesShadow(a, b)' /\ status'[a] = "refreshing" /\ status'[b] = "refreshing"
                 => populated'[a]
        BY <2>3, <3>3 DEF FirstBuildsAlone
    <3>. QED
        BY <3>1, <3>2, <3>4 DEF FirstBuildsAlone
  <2>8. QueueIsCurrent'
    <3>1. \A v \in todo : populated'[v] = populated[v]
        BY <2>3 DEF QueueIsCurrent, CatalogTypeOK
    <3>. QED
        BY <2>1, <3>1 DEF QueueIsCurrent, Rebuild, Shared
  <2>9. DropIsCurrent'
      BY <2>1, <2>3, <2>4 DEF DropIsCurrent, CatalogTypeOK
  <2>. QED
      BY <2>6, <2>7, <2>8, <2>9
<1>4. CASE BuildFails
  <2>1. /\ UNCHANGED <<populated, shadow, creating, dropping, todo, asLoaded>>
        /\ grp' = {}
        /\ \A v \in Views : \/ status'[v] = status[v]
                            \/ HasRow(v) /\ status'[v] = "failed"
      BY <1>4 DEF BuildFails, EndGroup, apiVars
  <2>2. \A v \in Views : HasRow(v)' <=> HasRow(v)
      BY <2>1 DEF HasRow
  <2>3. RefsAreUsers'
      BY <2>1, <2>2, UsersKept
  <2>4. FirstBuildsAlone'
      BY <2>1, <2>2 DEF FirstBuildsAlone, SharesShadow, HasRow, CatalogTypeOK
  <2>5. QueueIsCurrent'
      BY <2>1 DEF QueueIsCurrent, Rebuild, Shared
  <2>6. DropIsCurrent'
      BY <2>1, <2>2 DEF DropIsCurrent, CatalogTypeOK
  <2>. QED
      BY <2>3, <2>4, <2>5, <2>6
<1>. QED
    BY <1>1, <1>2, <1>3, <1>4 DEF WorkerStep

\* RefsSafe is inductive together with the types and DdlSafe.
LEMMA StepRefs ==
    ASSUME CalmDdl, CalmRefresh, CatalogTypeOK, DdlSafe, RefsSafe, [CatalogNext]_catalogVars
    PROVE  RefsSafe'
<1>1. CASE UNCHANGED catalogVars
  <2>1. UNCHANGED <<status, populated, shadow, creating, dropping, pc, todo, asLoaded, grp>>
      BY <1>1 DEF catalogVars, apiVars, workerVars
  <2>2. \A v \in Views : HasRow(v)' <=> HasRow(v)
      BY <2>1 DEF HasRow
  <2>3. RefsAreUsers'
      BY <2>1, <2>2, UsersKept DEF RefsSafe
  <2>4. FirstBuildsAlone'
      BY <2>1, <2>2 DEF RefsSafe, FirstBuildsAlone, SharesShadow
  <2>5. QueueIsCurrent'
      BY <2>1 DEF RefsSafe, QueueIsCurrent, Rebuild, Shared
  <2>6. DropIsCurrent'
      BY <2>1 DEF RefsSafe, DropIsCurrent, HasRow
  <2>. QED
      BY <2>3, <2>4, <2>5, <2>6 DEF RefsSafe
<1>. QED
    BY <1>1, SessionsRefs, WorkerRefs DEF CatalogNext

\* It holds in the empty catalog.
LEMMA InitRefs ==
    ASSUME CatalogInit
    PROVE  RefsSafe
<1>1. \A t \in Tables : Users(t) = {} /\ ~shadow[t].exists
    BY DEF CatalogInit, Users, NoShadow
<1>2. RefsAreUsers
    BY <1>1 DEF RefsAreUsers
<1>. QED
    BY <1>2 DEF CatalogInit, RefsSafe, FirstBuildsAlone, QueueIsCurrent, DropIsCurrent,
                NoCreate, NoDrop, HasRow

\* Why the references match (populate.rs build, bootstrap.sql forget_view): a
\* first build is alone in its group, the queue still tells it from a rebuild,
\* and a drop gives back what the view took.
THEOREM RefsAreSafe ==
    ASSUME CalmDdl, CalmRefresh
    PROVE  CatalogSpec => []RefsSafe
<1>1. CatalogTypeOK /\ DdlSafe /\ RefsSafe /\ [CatalogNext]_catalogVars
        => (CatalogTypeOK /\ DdlSafe /\ RefsSafe)'
    BY StepType, StepSafe, StepRefs
<1>2. CatalogInit => CatalogTypeOK /\ DdlSafe /\ RefsSafe
    BY InitType, InitSafe, InitRefs
<1>. QED
    BY <1>1, <1>2, PTL DEF CatalogSpec

\* bootstrap.sql, nabla.shadows.refcount "join views using it": whatever order
\* builds, failures, refreshes and drops come in, a shadow has one reference
\* per populated join view on its table, and is there exactly as long as one is.
THEOREM RefsMatchUsers ==
    ASSUME CalmDdl, CalmRefresh
    PROVE  CatalogSpec => []RefsAreUsers
<1>1. RefsSafe => RefsAreUsers
    BY DEF RefsSafe
<1>. QED
    BY <1>1, RefsAreSafe, PTL
=============================================================================
