---------------------------- MODULE PhaseBook_proofs ----------------------------
(***************************************************************************)
(* What the books of a scan may be trusted for, for any readers, tools,    *)
(* categories, results and facts, and any number of tool runs.             *)
(***************************************************************************)
EXTENDS PhaseProperties, DataLemmas

-------------------------------------------------------------------------------
(***************************************************************************)
(* The tables                                                              *)
(***************************************************************************)
\* The tools of the phases, as a list.
ToolList ==
    <<"http_client", "technology_fingerprint", "root_link_inventory", "robots_txt", "sitemap_xml",
      "static_asset_inventory", "api_path_hints", "crawler", "katana", "gobuster_dir", "ffuf_dir",
      "nmap_top_ports", "openapi_discovery", "api_profile_probe", "api_method_probe",
      "ffuf_api_paths", "gobuster_api_paths", "auth_session_mapping", "account_provisioning",
      "login_session", "token_analysis", "jwt_adaptive", "authenticated_crawling",
      "authorization_matrix", "idor_bola_bfla_planner", "input_validation_planner", "xss_adaptive",
      "sqli_adaptive", "ssrf_adaptive", "business_logic_planner">>

\* There are finitely many tools.
LEMMA ToolsAreFew ==
  /\ IsFiniteSet(Tools)
  /\ \A t \in Tools : \E k \in 1..30 : t = ToolList[k]
<1>1. \A t \in AllTools : \E k \in 1..30 : t = ToolList[k]
  BY DEF AllTools, PhaseTools, ToolList
<1>2. Len(ToolList) = 30 /\ ToolList \in Seq(AllTools)
  <2>1. Len(ToolList) = 30
    BY DEF ToolList
  <2>2. \A k \in 1..30 : ToolList[k] \in AllTools
    BY DEF AllTools, PhaseTools, ToolList
  <2> QED
    BY <2>1, <2>2 DEF ToolList
<1>3. AllTools \subseteq ToSet(ToolList)
  <2>1. DOMAIN ToolList = 1..30
    BY <1>2
  <2> QED
    BY <1>1, <2>1 DEF ToSet
<1>4. IsFiniteSet(ToSet(ToolList))
  BY <1>2, ListedIsFinite
<1>5. IsFiniteSet(AllTools)
  BY <1>3, <1>4, FS_Subset
<1> QED
  BY <1>1, <1>5, ToolsAssumption, FS_Subset

\* No category has the name of a tool.
LEMMA NamesApart == Tools \cap Categories = {}
<1>1. \A k \in Categories : \A i \in 1..30 : k # ToolList[i]
  BY CategoriesAssumption DEF CategoryTools, ToolList
<1> QED
  BY <1>1, ToolsAreFew

\* A category heads its tools with one of the table.
LEMMA HeadsAreTools ==
  ASSUME NEW k \in Categories
  PROVE  /\ CategoryTools[k] \in Seq(AllTools) /\ CategoryTools[k] # <<>>
         /\ Head(CategoryTools[k]) \in AllTools
         /\ Head(CategoryTools[k]) \in ToSet(CategoryTools[k])
<1> DEFINE L == {"auth_session_mapping", "account_provisioning", "login_session", "token_analysis",
                 "jwt_adaptive", "authorization_matrix", "idor_bola_bfla_planner",
                 "input_validation_planner", "xss_adaptive", "sqli_adaptive", "ssrf_adaptive",
                 "business_logic_planner", "technology_fingerprint", "openapi_discovery",
                 "api_method_probe", "http_client", "static_asset_inventory", "api_profile_probe"}
           Right(n) == CategoryTools[n] \in Seq(L) /\ CategoryTools[n] # <<>>
<1>1. Right("Authentication") /\ Right("SessionManagement") /\ Right("TokenSecurity") /\ Right("Authorization")
  BY DEF CategoryTools
<1>2. Right("ObjectLevel") /\ Right("FunctionLevel") /\ Right("InputValidation") /\ Right("CrossSiteScripting")
  BY DEF CategoryTools
<1>3. Right("SqlInjection") /\ Right("RequestForgery") /\ Right("BusinessLogic") /\ Right("Misconfiguration")
  BY DEF CategoryTools
<1>4. Right("HttpMethods") /\ Right("Exposure") /\ Right("ErrorHandling") /\ Right("ApiInventory")
  BY DEF CategoryTools
<1>5. L \subseteq AllTools
  BY DEF AllTools, PhaseTools
<1>6. k \in {"Authentication", "SessionManagement", "TokenSecurity", "Authorization",
         "ObjectLevel", "FunctionLevel", "InputValidation", "CrossSiteScripting",
         "SqlInjection", "RequestForgery", "BusinessLogic", "Misconfiguration",
         "HttpMethods", "Exposure", "ErrorHandling", "ApiInventory"}
  BY CategoriesAssumption DEF CategoryTools
<1> HIDE DEF L
<1>7. Right(k)
  <2> HIDE DEF Right
  <2> QED
    BY <1>1, <1>2, <1>3, <1>4, <1>6
<1>8. CategoryTools[k] \in Seq(AllTools) /\ CategoryTools[k] # <<>>
  BY <1>5, <1>7
<1> QED
  BY <1>8, ElementsMove

-------------------------------------------------------------------------------
(***************************************************************************)
(* What the operators return                                               *)
(***************************************************************************)
\* What the row of a tool may say, and what the entry of a test case.
Ends    == Statuses \cup {"running"}
Entries == [name : Tools \cup Categories, tool : AllTools,
            status : CaseStatuses]

\* A phase that has rows is derived to have begun.
LEMMA DerivedHasBegun == \A seen : Derived(seen) \in PhaseStatuses \ {"absent", "planned"}
<1> QED
  BY DEF Derived, PhaseStatuses, Statuses

\* Deriving the phases changes those that have rows, and those then have begun.
LEMMA SyncedBegins ==
  ASSUME NEW marked \in [Phases -> PhaseStatuses], NEW c
  PROVE  /\ Synced(marked, c) \in [Phases -> PhaseStatuses]
         /\ \A p \in Phases : \/ Synced(marked, c)[p] = marked[p]
                              \/ Synced(marked, c)[p] \notin {"absent", "planned"}
<1> DEFINE seen(p) == {c[t] : t \in ToolsOf(p) \cap HasRow}
<1>1. Synced(marked, c) = [p \in Phases |-> IF seen(p) = {} THEN marked[p] ELSE Derived(seen(p))]
  BY DEF Synced
<1> HIDE DEF seen
<1> QED
  BY <1>1, DerivedHasBegun

\* What is missing is inserted as planned.
LEMMA EnsuredKeeps ==
  ASSUME NEW ph \in [Phases -> PhaseStatuses]
  PROVE  /\ Ensured(ph) \in [Phases -> PhaseStatuses \ {"absent"}]
         /\ \A p \in Phases : ph[p] # "absent" => Ensured(ph)[p] = ph[p]
<1> QED
  BY DEF Ensured, PhaseStatuses

\* The cases keep their number, their names and their tools.
LEMMA RecordedKeeps ==
  ASSUME NEW cs \in Seq(Entries), NEW t, NEW u \in Statuses
  PROVE  /\ Recorded(cs, t, u) \in Seq(Entries) /\ Len(Recorded(cs, t, u)) = Len(cs)
         /\ \A i \in 1..Len(cs) :
              LET new == Recorded(cs, t, u)[i] IN
              /\ new.name = cs[i].name /\ new.tool = cs[i].tool
              /\ new.status # cs[i].status => new.status = u /\ cs[i].tool = t
<1>1. /\ Len(cs) \in Nat /\ DOMAIN cs = 1..Len(cs) /\ \A i \in 1..Len(cs) : cs[i] \in Entries
  OBVIOUS
<1> DEFINE N == Newest(cs, t)
           f == [i \in 1..Len(cs) |-> IF i \in N THEN [cs[i] EXCEPT !.status = u] ELSE cs[i]]
<1>2. Recorded(cs, t, u) = f /\ \A i \in N : cs[i].tool = t
  BY <1>1 DEF Recorded, Newest
<1>3. \A e \in Entries : /\ [e EXCEPT !.status = u] \in Entries
                         /\ [e EXCEPT !.status = u].name = e.name
                         /\ [e EXCEPT !.status = u].tool = e.tool
                         /\ [e EXCEPT !.status = u].status = u
  BY DEF Entries, CaseStatuses
<1> HIDE DEF N, Entries
<1>4. /\ f \in [1..Len(cs) -> Entries]
      /\ \A i \in 1..Len(cs) : /\ f[i].name = cs[i].name /\ f[i].tool = cs[i].tool
                               /\ f[i].status # cs[i].status => f[i].status = u /\ i \in N
  BY <1>1, <1>3
<1> HIDE DEF f
<1>5. f \in Seq(Entries) /\ Len(f) = Len(cs)
  BY <1>1, <1>4
<1> QED
  BY <1>2, <1>4, <1>5

\* So they do when the tool loop gives the planned case its status.
LEMMA FinishedKeeps ==
  ASSUME NEW cs \in Seq(Entries), NEW t, NEW u \in Statuses
  PROVE  /\ Finished(cs, t, u) \in Seq(Entries) /\ Len(Finished(cs, t, u)) = Len(cs)
         /\ \A i \in 1..Len(cs) :
              LET new == Finished(cs, t, u)[i] IN
              /\ new.name = cs[i].name /\ new.tool = cs[i].tool
              /\ new.status # cs[i].status => new.status = u /\ cs[i].name = t
<1>1. /\ Len(cs) \in Nat /\ DOMAIN cs = 1..Len(cs) /\ \A i \in 1..Len(cs) : cs[i] \in Entries
  OBVIOUS
<1> DEFINE f == [i \in 1..Len(cs) |-> IF cs[i].name = t THEN [cs[i] EXCEPT !.status = u] ELSE cs[i]]
<1>2. Finished(cs, t, u) = f
  BY <1>1 DEF Finished
<1>3. \A e \in Entries : /\ [e EXCEPT !.status = u] \in Entries
                         /\ [e EXCEPT !.status = u].name = e.name
                         /\ [e EXCEPT !.status = u].tool = e.tool
                         /\ [e EXCEPT !.status = u].status = u
  BY DEF Entries, CaseStatuses
<1> HIDE DEF Entries
<1>4. /\ f \in [1..Len(cs) -> Entries]
      /\ \A i \in 1..Len(cs) : /\ f[i].name = cs[i].name /\ f[i].tool = cs[i].tool
                               /\ f[i].status # cs[i].status => f[i].status = u /\ cs[i].name = t
  BY <1>1, <1>3
<1> HIDE DEF f
<1>5. f \in Seq(Entries) /\ Len(f) = Len(cs)
  BY <1>1, <1>4
<1> QED
  BY <1>2, <1>4, <1>5

\* So they do when the gate marks them.
LEMMA MarkedKeeps ==
  ASSUME cases \in Seq(Entries), NEW blocked
  PROVE  /\ Marked(blocked) \in Seq(Entries) /\ Len(Marked(blocked)) = Len(cases)
         /\ \A i \in 1..Len(cases) :
              LET new == Marked(blocked)[i] IN
              /\ new.name = cases[i].name /\ new.tool = cases[i].tool
              /\ new.status # cases[i].status => new.status = "coverage_gap_auth_blocked"
<1>1. /\ Len(cases) \in Nat /\ DOMAIN cases = 1..Len(cases) /\ \A i \in 1..Len(cases) : cases[i] \in Entries
  OBVIOUS
<1> DEFINE gap == "coverage_gap_auth_blocked"
           f == [i \in 1..Len(cases) |->
                    IF cases[i].tool \in blocked THEN [cases[i] EXCEPT !.status = gap] ELSE cases[i]]
<1>2. Marked(blocked) = f
  BY <1>1 DEF Marked
<1>3. \A e \in Entries : /\ [e EXCEPT !.status = gap] \in Entries
                         /\ [e EXCEPT !.status = gap].name = e.name
                         /\ [e EXCEPT !.status = gap].tool = e.tool
                         /\ [e EXCEPT !.status = gap].status = gap
  BY DEF Entries, CaseStatuses
<1> HIDE DEF Entries
<1>4. /\ f \in [1..Len(cases) -> Entries]
      /\ \A i \in 1..Len(cases) : /\ f[i].name = cases[i].name /\ f[i].tool = cases[i].tool
                                  /\ f[i].status # cases[i].status => f[i].status = gap
  BY <1>1, <1>3
<1> HIDE DEF f
<1>5. f \in Seq(Entries) /\ Len(f) = Len(cases)
  BY <1>1, <1>4
<1> QED
  BY <1>2, <1>4, <1>5

\* The planned cases are added behind the others.
LEMMA PlannedAreAdded ==
  ASSUME cases \in Seq(Entries), NEW chosen \in SUBSET Tools
  PROVE  /\ WithPlanned(chosen) \in Seq(Entries) /\ Len(cases) <= Len(WithPlanned(chosen))
         /\ \A i \in 1..Len(WithPlanned(chosen)) :
              \/ i \in 1..Len(cases) /\ WithPlanned(chosen)[i] = cases[i]
              \/ \E t \in Tools : WithPlanned(chosen)[i] = Case(t, t, "planned")
<1> DEFINE S == chosen \ Names
           n == Cardinality(S)
           f == [i \in 1..n |-> LET t == SetToSeq(S)[i] IN Case(t, t, "planned")]
<1>1. IsFiniteSet(S)
  BY ToolsAreFew, FS_Subset
<1>2. SetToSeq(S) \in Seq(S) /\ Len(SetToSeq(S)) = n /\ n \in Nat
  BY <1>1, SetIsListed
<1>3. \A t \in Tools : Case(t, t, "planned") \in Entries
  BY ToolsAssumption DEF Case, Entries, CaseStatuses
<1>4. WithPlanned(chosen) = cases \o f
  BY DEF WithPlanned
<1> HIDE DEF n, Entries
<1>5. \A i \in 1..n : SetToSeq(S)[i] \in Tools
  BY <1>2
<1>6. f \in [1..n -> Entries] /\ \A i \in 1..n : \E t \in Tools : f[i] = Case(t, t, "planned")
  BY <1>3, <1>5
<1> HIDE DEF f
<1>7. f \in Seq(Entries) /\ Len(f) = n
  BY <1>2, <1>6
<1>8. cases \o f \in Seq(Entries) /\ Len(cases \o f) = Len(cases) + n
  BY <1>7
<1>9. ASSUME NEW i \in 1..(Len(cases) + n)
      PROVE  \/ i \in 1..Len(cases) /\ (cases \o f)[i] = cases[i]
             \/ i - Len(cases) \in 1..n /\ (cases \o f)[i] = f[i - Len(cases)]
  BY <1>2, <1>7
<1> QED
  BY <1>2, <1>4, <1>6, <1>8, <1>9

\* Closing the cases leaves none planned: a planned one misses something, and
\* the coverage cases that are inserted have what the matrix says of them.
LEMMA FinalizedCloses ==
  ASSUME cases \in Seq(Entries), NEW got \in [Categories -> Ends \cup {"not_applicable"}]
  PROVE  /\ Finalized(got) \in Seq(Entries)
         /\ \A i \in 1..Len(Finalized(got)) :
              LET new == Finalized(got)[i] IN
              /\ new.status # "planned"
              /\ \/ /\ i \in 1..Len(cases) /\ new.name = cases[i].name /\ new.tool = cases[i].tool
                    /\ new.status # cases[i].status => new.status = "missing_prerequisite"
                 \/ \E k \in Categories : new = Case(k, Head(CategoryTools[k]), got[k])
<1> DEFINE S == Categories \ Names
           new == InOrder(CategoryOrder, S)
           f == [i \in DOMAIN new |-> Case(new[i], Head(CategoryTools[new[i]]), got[new[i]])]
           all == cases \o f
           g == [i \in DOMAIN all |->
                   IF all[i].status = "planned" THEN [all[i] EXCEPT !.status = "missing_prerequisite"]
                   ELSE all[i]]
<1>1. Finalized(got) = g
  BY DEF Finalized
<1> DEFINE T == {"Authentication", "SessionManagement", "TokenSecurity", "Authorization", "ObjectLevel",
                 "FunctionLevel", "InputValidation", "CrossSiteScripting", "SqlInjection",
                 "RequestForgery", "BusinessLogic", "Misconfiguration", "HttpMethods", "Exposure",
                 "ErrorHandling", "ApiInventory"}
<1>2. CategoryOrder \in Seq(T)
  BY DEF CategoryOrder
<1> HIDE DEF S, T
<1>3. /\ new \in Seq(T) /\ DOMAIN new = 1..Len(new) /\ Len(new) \in Nat
      /\ \A i \in 1..Len(new) : new[i] \in Categories
  <2>1. new \in Seq(T) /\ \A i \in 1..Len(new) : new[i] \in S
    BY <1>2, InOrderElements
  <2> HIDE DEF new
  <2> QED
    BY <2>1 DEF S
<1>4. \A k \in Categories : /\ Case(k, Head(CategoryTools[k]), got[k]) \in Entries
                            /\ Case(k, Head(CategoryTools[k]), got[k]).status # "planned"
  BY HeadsAreTools DEF Case, Entries, CaseStatuses, Ends, Statuses
<1> HIDE DEF new
<1>5. /\ f \in [1..Len(new) -> Entries] /\ Len(new) \in Nat
      /\ \A i \in 1..Len(new) : \E k \in Categories : f[i] = Case(k, Head(CategoryTools[k]), got[k])
  <2> HIDE DEF Entries
  <2> QED
    BY <1>3, <1>4
<1> HIDE DEF f, Entries
<1>6. f \in Seq(Entries) /\ Len(f) = Len(new)
  BY <1>5
<1>7. all \in Seq(Entries) /\ Len(all) = Len(cases) + Len(new) /\ Len(all) \in Nat /\ Len(cases) \in Nat
  <2> DEFINE n == Len(new)
  <2>1. n \in Nat /\ Len(f) = n
    BY <1>5, <1>6
  <2> HIDE DEF n
  <2>2. cases \o f \in Seq(Entries) /\ Len(cases \o f) = Len(cases) + n
    BY <1>6, <2>1
  <2> QED
    BY <2>1, <2>2 DEF n
<1>8. \A i \in 1..Len(all) : \/ i \in 1..Len(cases) /\ all[i] = cases[i]
                             \/ \E k \in Categories : all[i] = Case(k, Head(CategoryTools[k]), got[k])
  <2> SUFFICES ASSUME NEW i \in 1..Len(all)
               PROVE  \/ i \in 1..Len(cases) /\ all[i] = cases[i]
                      \/ \E k \in Categories : all[i] = Case(k, Head(CategoryTools[k]), got[k])
    OBVIOUS
  <2>1. \/ i \in 1..Len(cases) /\ all[i] = cases[i]
        \/ i - Len(cases) \in 1..Len(new) /\ all[i] = f[i - Len(cases)]
    BY <1>6, <1>7
  <2> QED
    BY <1>5, <2>1
<1> HIDE DEF all
<1>9. DOMAIN all = 1..Len(all) /\ \A i \in 1..Len(all) : all[i] \in Entries
  BY <1>7
<1>10. \A e \in Entries : /\ [e EXCEPT !.status = "missing_prerequisite"] \in Entries
                          /\ [e EXCEPT !.status = "missing_prerequisite"].name = e.name
                          /\ [e EXCEPT !.status = "missing_prerequisite"].tool = e.tool
                          /\ [e EXCEPT !.status = "missing_prerequisite"].status = "missing_prerequisite"
  BY DEF Entries, CaseStatuses, Statuses
<1>11. g \in [1..Len(all) -> Entries]
  BY <1>9, <1>10
<1>12. \A i \in 1..Len(all) :
          /\ g[i].status # "planned"
          /\ \/ g[i] = all[i]
             \/ /\ g[i].name = all[i].name /\ g[i].tool = all[i].tool
                /\ all[i].status = "planned" /\ g[i].status = "missing_prerequisite"
  BY <1>9, <1>10
<1> HIDE DEF g
<1>13. g \in Seq(Entries) /\ Len(g) = Len(all)
  BY <1>7, <1>11
<1>14. ASSUME NEW i \in 1..Len(all)
       PROVE  /\ g[i].status # "planned"
              /\ \/ /\ i \in 1..Len(cases) /\ g[i].name = cases[i].name /\ g[i].tool = cases[i].tool
                    /\ g[i].status # cases[i].status => g[i].status = "missing_prerequisite"
                 \/ \E k \in Categories : g[i] = Case(k, Head(CategoryTools[k]), got[k])
  <2>1. CASE i \in 1..Len(cases) /\ all[i] = cases[i]
    BY <1>12, <2>1
  <2>2. CASE \E k \in Categories : all[i] = Case(k, Head(CategoryTools[k]), got[k])
    BY <1>4, <1>12, <2>2
  <2> QED
    BY <1>8, <2>1, <2>2
<1> QED
  BY <1>1, <1>13, <1>14

\* The matrix claims a good end only for a category of which some tool has it.
LEMMA CoverageIsEvident ==
  ASSUME NEW k \in Categories, NEW c \in Picks, NEW u \in CoverageOf(k, c),
         u \in {"completed", "finding_created"}
  PROVE  \E t \in ToSet(CategoryTools[k]) \cap Tools : u \in ToSet(rows[t])
<1> DEFINE run == InOrder(CategoryTools[k], HasRow)
           seen == [i \in DOMAIN run |-> c[run[i]]]
<1>1. Seen(k, c) = seen
  BY DEF Seen
<1>2. CategoryTools[k] \in Seq(AllTools)
  BY HeadsAreTools
<1>3. /\ run \in Seq(AllTools)
      /\ \A i \in 1..Len(run) : run[i] \in HasRow
      /\ \A i \in 1..Len(run) : \E j \in 1..Len(CategoryTools[k]) : CategoryTools[k][j] = run[i]
  <2> DEFINE s == CategoryTools[k]
  <2>1. s \in Seq(AllTools)
    BY <1>2
  <2> HIDE DEF s
  <2>2. InOrder(s, HasRow) \in Seq(AllTools) /\ \A i \in 1..Len(InOrder(s, HasRow)) : InOrder(s, HasRow)[i] \in HasRow
    BY <2>1, InOrderElements
  <2>3. \A i \in 1..Len(InOrder(s, HasRow)) : \E j \in 1..Len(s) : s[j] = InOrder(s, HasRow)[i]
    BY <2>1, InOrderElements
  <2> QED
    BY <2>2, <2>3 DEF s
<1> HIDE DEF run
<1>4. /\ c \in [HasRow -> Statuses \cup {"running"}] /\ HasRow \subseteq Tools
      /\ \A t \in HasRow : c[t] \in ToSet(rows[t])
  BY DEF Picks, HasRow
<1>5. seen \in [1..Len(run) -> Ends] /\ Len(run) \in Nat
  BY <1>3, <1>4 DEF Ends
<1>6. \A i \in 1..Len(run) : seen[i] = c[run[i]]
  BY <1>3
<1> HIDE DEF seen
<1>7. seen \in Seq(Ends) /\ Len(seen) = Len(run)
  BY <1>5
<1> DEFINE B == {"execution_error", "missing_prerequisite"}
           bad == InOrder(seen, B)
<1>8. bad \in Seq(Ends) /\ \A i \in 1..Len(bad) : bad[i] \in B
  BY <1>7, InOrderElements
<1>9. Covered(seen) = IF Contains(seen, "finding_created") THEN "finding_created"
                      ELSE IF bad # <<>> THEN Head(bad)
                      ELSE IF Contains(seen, "manual_confirmation_required") THEN "manual_confirmation_required"
                      ELSE IF Contains(seen, "completed") THEN "completed" ELSE "running"
  BY DEF Covered
<1> HIDE DEF bad
<1>10. bad # <<>> => Head(bad) \in B
  BY <1>8
<1>11. u = Covered(seen)
  BY <1>1 DEF CoverageOf
<1>12. Contains(seen, u)
  BY <1>9, <1>10, <1>11
<1>13. PICK i \in 1..Len(run) : seen[i] = u
  BY <1>7, <1>12 DEF Contains
<1>14. run[i] \in Tools /\ u \in ToSet(rows[run[i]])
  BY <1>3, <1>4, <1>6, <1>13
<1>15. run[i] \in ToSet(CategoryTools[k])
  BY <1>2, <1>3 DEF ToSet
<1> QED
  BY <1>14, <1>15

-------------------------------------------------------------------------------
(***************************************************************************)
(* Types and control                                                       *)
(***************************************************************************)
\* What a reader may be about to write: phases that have begun.
Written == UNION {[S -> PhaseStatuses \ {"absent", "planned"}] : S \in SUBSET Phases}

\* The places of the worker and of a reader.
WorkRecords == [at : {"off", "tools", "testing"},
                job : {"none", "run"} \cup (Phases \cap DOMAIN PhaseTools),
                todo : Seq(Tools), seen : SUBSET Statuses]
ReadRecords == [at : {"idle", "looked", "derived"}, dirty : Written,
                verdict : {"none", "ready", "not_ready", "manual_review_required"}]

\* The types of the variables, more closely than PhaseTypeOK needs them.
Shape ==
    /\ facts \in Facts
    /\ status \in {"created", "running", "stopped", "auth_blocked", "failed", "completed", "ready"}
    /\ phase \in [Phases -> PhaseStatuses]
    /\ rows \in [Tools -> Seq(Ends)]
    /\ cases \in Seq(Entries)
    /\ severe \in BOOLEAN
    /\ work \in WorkRecords
    /\ read \in [Readers -> ReadRecords]

\* The worker has work while the scan is running; the tool that it runs has a
\* marker for its last row.
Course ==
    /\ work.at # "off" => status = "running" /\ work.job # "none"
    /\ work.at = "off" => work.todo = <<>>
    /\ work.at = "testing" =>
          LET t == Head(work.todo) IN
          /\ work.job = "run" /\ work.todo # <<>>
          /\ rows[t] # <<>> /\ rows[t][Len(rows[t])] = "running"
    /\ \A r \in Readers : read[r].at = "derived" => AllThere

\* Both are needed for either to be kept.
Inv == Shape /\ Course

\* The marker of a tool that ends gets the tool's status, and no other row is
\* lost.
LEMMA MarkerEnds ==
  ASSUME NEW q \in Seq(Ends), q # <<>>, q[Len(q)] = "running", NEW u \in Statuses
  PROVE  LET new == Append([q EXCEPT ![Len(q)] = u], u) IN
         /\ new \in Seq(Ends) /\ Len(new) = Len(q) + 1
         /\ ToSet(q) \ {"running"} \subseteq ToSet(new) /\ u \in ToSet(new)
<1> DEFINE n == Len(q)
           m == [q EXCEPT ![n] = u]
           new == Append(m, u)
<1>1. n \in Nat /\ n \in 1..n /\ DOMAIN q = 1..n /\ q \in [1..n -> Ends] /\ u \in Ends
  BY DEF Ends
<1>2. m \in [1..n -> Ends] /\ \A i \in 1..n : q[i] # "running" => m[i] = q[i]
  <2>1. q[n] = "running"
    OBVIOUS
  <2> HIDE DEF n, Ends
  <2> QED
    BY <1>1, <2>1
<1> HIDE DEF m, n
<1>3. m \in Seq(Ends) /\ Len(m) = n
  BY <1>1, <1>2
<1>4. new \in Seq(Ends) /\ Len(new) = n + 1 /\ ToSet(new) = ToSet(m) \cup {u}
  BY <1>1, <1>3, ElementsMove
<1>5. ToSet(q) \ {"running"} \subseteq ToSet(m)
  <2>1. DOMAIN m = 1..n
    BY <1>2
  <2> QED
    BY <1>1, <1>2, <2>1 DEF ToSet
<1> QED
  BY <1>4, <1>5 DEF m, n

\* What a step does with the tool runs: it leaves them, or gives one tool one
\* row more and loses no row but a marker.
Longer(t, q) ==
    /\ rows' = [rows EXCEPT ![t] = q] /\ Len(q) = Len(rows[t]) + 1
    /\ ToSet(rows[t]) \ {"running"} \subseteq ToSet(q)

\* Every step leaves the rows alone or is the step of a tool that does that.
LEMMA RowsMove ==
  ASSUME Inv, Next
  PROVE  \/ rows' = rows
         \/ /\ work.todo # <<>> /\ \E q \in Seq(Ends) : Longer(Head(work.todo), q)
            /\ BeginTool \/ EndTool \/ BlockTool \/ ContinueTool
<1>1. /\ rows \in [Tools -> Seq(Ends)] /\ work.todo \in Seq(Tools)
      /\ work.at = "testing" =>
            LET t == Head(work.todo) IN
            work.todo # <<>> /\ rows[t] # <<>> /\ rows[t][Len(rows[t])] = "running"
  BY DEF Inv, Shape, Course, WorkRecords
<1> DEFINE t == Head(work.todo)
<1>2. ASSUME NEW u \in Ends, work.todo # <<>>, rows' = [rows EXCEPT ![t] = Append(@, u)]
      PROVE  \E q \in Seq(Ends) : Longer(t, q)
  <2>1. t \in Tools /\ rows[t] \in Seq(Ends)
    BY <1>1, <1>2
  <2> HIDE DEF t, Ends
  <2>2. /\ Append(rows[t], u) \in Seq(Ends) /\ ToSet(Append(rows[t], u)) = ToSet(rows[t]) \cup {u}
        /\ Len(Append(rows[t], u)) = Len(rows[t]) + 1
    BY <1>2, <2>1, ElementsMove
  <2> QED
    BY <1>2, <2>1, <2>2 DEF Longer
<1>3. CASE BeginTool
  BY <1>2, <1>3 DEF BeginTool, Ends
<1>4. CASE BlockTool
  BY <1>2, <1>4 DEF BlockTool, Ends, Statuses
<1>5. CASE ContinueTool
  <2>1. PICK u \in Results : rows' = [rows EXCEPT ![t] = Append(@, u)]
    BY <1>5 DEF ContinueTool
  <2>2. u \in Ends /\ work.todo # <<>>
    BY <1>5, ResultsAssumption DEF ContinueTool, Ends, Statuses
  <2> QED
    BY <1>2, <1>5, <2>1, <2>2
<1>6. CASE EndTool
  <2>1. PICK u \in Results : rows' = [rows EXCEPT ![t] = Append([@ EXCEPT ![Len(@)] = u], u)]
    BY <1>6 DEF EndTool
  <2>2. u \in Statuses /\ work.todo # <<>> /\ t \in Tools /\ rows[t] \in Seq(Ends)
        /\ rows[t] # <<>> /\ rows[t][Len(rows[t])] = "running"
    BY <1>1, <1>6, ResultsAssumption DEF EndTool, Statuses
  <2> DEFINE q == Append([rows[t] EXCEPT ![Len(rows[t])] = u], u)
  <2>3. /\ q \in Seq(Ends) /\ Len(q) = Len(rows[t]) + 1
        /\ ToSet(rows[t]) \ {"running"} \subseteq ToSet(q)
    BY <2>2, MarkerEnds
  <2>4. rows' = [rows EXCEPT ![t] = q]
    BY <2>1
  <2> HIDE DEF q, t
  <2>5. Longer(t, q)
    BY <2>3, <2>4 DEF Longer
  <2> QED
    BY <1>6, <2>2, <2>3, <2>5 DEF t
<1>7. CASE StartRun \/ SkipTool \/ GateTool \/ GateStops \/ StopRun \/ CrashRun \/ Complete \/ StartContinue
           \/ ContinueEnds \/ ContinueCrashes \/ CloseFindings
  BY <1>7 DEF StartRun, SkipTool, GateTool, GateStops, StopRun, CrashRun, Complete, StartContinue, ContinueEnds, ContinueCrashes,
     CloseFindings, bookVars
<1>8. CASE \E r \in Readers : Reads(r)
  BY <1>8 DEF Reads, Look, Insert, Derive, Commit, bookVars
<1> QED
  BY <1>3, <1>4, <1>5, <1>6, <1>7, <1>8 DEF Next, Works

\* Phases that have begun, however they are written, are in the state's type,
\* stay begun, and none that is there goes away.
LEMMA PhasesMove ==
  ASSUME Inv, Next
  PROVE  /\ phase' \in [Phases -> PhaseStatuses]
         /\ \A p \in Phases : Begun(phase, p) => Begun(phase', p)
         /\ AllThere => AllThere'
<1> DEFINE Good(ph) == /\ ph \in [Phases -> PhaseStatuses]
                       /\ \A p \in Phases : /\ Begun(phase, p) => Begun(ph, p)
                                            /\ phase[p] # "absent" => ph[p] # "absent"
<1>1. /\ phase \in [Phases -> PhaseStatuses] /\ work \in WorkRecords /\ read \in [Readers -> ReadRecords]
  BY DEF Inv, Shape
<1>2. Good(phase) /\ Good(Ensured(phase))
  BY <1>1, EnsuredKeeps DEF Begun
<1>3. ASSUME NEW ph, Good(ph), NEW p, NEW m \in PhaseStatuses \ {"absent", "planned"}
      PROVE  Good([ph EXCEPT ![p] = m])
  BY <1>3 DEF Begun
<1>4. ASSUME NEW ph, Good(ph), NEW c PROVE Good(Synced(ph, c))
  BY <1>4, SyncedBegins DEF Begun
<1> SUFFICES Good(phase')
  BY DEF AllThere
<1>5. {"completed", "execution_error", "running", "finding_created"} \subseteq PhaseStatuses \ {"absent", "planned"}
  BY DEF PhaseStatuses, Statuses
<1> HIDE DEF Good
<1>6. CASE StartRun
  <2>1. Good([Ensured(phase) EXCEPT !["precheck"] = "completed"])
    BY <1>2, <1>3, <1>5
  <2>2. Good([[Ensured(phase) EXCEPT !["precheck"] = "completed"] EXCEPT !["ai_planning"] = "completed"])
    BY <1>3, <1>5, <2>1
  <2> QED
    BY <1>6, <2>2 DEF StartRun
<1>7. CASE Complete
  <2>1. PICK c \in Picks, m \in {"completed", "execution_error"} : phase' = Synced(Reviewed(m), c)
    BY <1>7 DEF Complete
  <2>2. \/ Reviewed(m) = [Ensured(phase) EXCEPT !["ai_evidence_review"] = "completed"]
        \/ Reviewed(m) = [Ensured(phase) EXCEPT !["ai_evidence_review"] = m]
    BY DEF Reviewed
  <2>3. Good(Reviewed(m))
    BY <1>2, <1>3, <1>5, <2>1, <2>2
  <2> QED
    BY <1>4, <2>1, <2>3
<1>8. CASE StartContinue
  <2>1. PICK p \in Phases : phase' = [Ensured(phase) EXCEPT ![p] = "running"]
    BY <1>8 DEF StartContinue
  <2> QED
    BY <1>2, <1>3, <1>5, <2>1
<1>9. CASE ContinueEnds
  <2> DEFINE mark == IF "finding_created" \in work.seen THEN "finding_created"
                     ELSE IF "execution_error" \in work.seen THEN "execution_error"
                     ELSE "completed"
  <2>1. PICK c \in Picks : phase' = Synced([phase EXCEPT ![work.job] = mark], c)
    BY <1>9 DEF ContinueEnds
  <2>2. mark \in PhaseStatuses \ {"absent", "planned"}
    BY <1>5
  <2> HIDE DEF mark
  <2>3. Good([phase EXCEPT ![work.job] = mark])
    BY <1>2, <1>3, <2>2
  <2> QED
    BY <1>4, <2>1, <2>3
<1>10. CASE \E r \in Readers : Reads(r)
  <2>1. PICK r \in Readers : Reads(r)
    BY <1>10
  <2>2. CASE Commit(r)
    <3> DEFINE d == read[r].dirty
    <3>1. d \in Written
      BY <1>1 DEF ReadRecords
    <3>2. PICK S \in SUBSET Phases : d \in [S -> PhaseStatuses \ {"absent", "planned"}]
      BY <3>1 DEF Written
    <3>3. phase' = [p \in Phases |-> IF p \in S THEN d[p] ELSE phase[p]]
      BY <2>2, <3>2 DEF Commit
    <3> HIDE DEF d
    <3> QED
      BY <1>1, <3>2, <3>3 DEF Good, Begun
  <2>3. CASE Look(r) \/ Insert(r) \/ Derive(r)
    BY <1>2, <2>3 DEF Look, Insert, Derive, bookVars
  <2> QED
    BY <2>1, <2>2, <2>3 DEF Reads
<1>11. CASE \/ BeginTool \/ EndTool \/ BlockTool \/ SkipTool \/ GateTool \/ GateStops \/ StopRun \/ CrashRun
            \/ ContinueTool \/ ContinueCrashes \/ CloseFindings
  BY <1>2, <1>11 DEF BeginTool, EndTool, BlockTool, SkipTool, GateTool, GateStops, StopRun, CrashRun,
     ContinueTool, ContinueCrashes, CloseFindings, bookVars
<1> QED
  BY <1>6, <1>7, <1>8, <1>9, <1>10, <1>11 DEF Next, Works

\* What a step does with the cases: it leaves them, adds planned ones, records a
\* result of the tool that the worker has come to, marks those of the gate, or
\* closes them.
Records(u) ==
    LET t == Head(work.todo) IN
    cases' \in {Recorded(cases, t, u), Finished(Recorded(cases, t, u), t, u)}

\* Every step does one of these with the cases.
LEMMA CasesMove ==
  ASSUME Inv, Next
  PROVE  \/ cases' = cases
         \/ StartRun /\ \E chosen \in SUBSET Tools : cases' = WithPlanned(chosen)
         \/ /\ work.todo # <<>>
            /\ \E u \in Statuses : /\ Records(u)
                                   /\ u \in ToSet(rows'[Head(work.todo)])
         \/ \E blocked \in SUBSET Gated : cases' = Marked(blocked)
         \/ /\ Complete
            /\ \E c \in Picks : \E got \in [Categories -> Ends \cup {"not_applicable"}] :
                  (\A k \in Categories : got[k] \in CoverageOf(k, c)) /\ cases' = Finalized(got)
<1> DEFINE t == Head(work.todo)
<1>1. /\ rows \in [Tools -> Seq(Ends)] /\ work.todo \in Seq(Tools)
      /\ work.at = "testing" =>
            work.todo # <<>> /\ rows[t] # <<>> /\ rows[t][Len(rows[t])] = "running"
  BY DEF Inv, Shape, Course, WorkRecords
<1>2. CASE EndTool
  <2>1. PICK u \in Results : /\ rows' = [rows EXCEPT ![t] = Append([@ EXCEPT ![Len(@)] = u], u)]
                             /\ cases' = Finished(Recorded(cases, t, u), t, u)
    BY <1>2 DEF EndTool
  <2>2. u \in Statuses /\ work.todo # <<>> /\ t \in Tools /\ rows[t] \in Seq(Ends)
        /\ rows[t] # <<>> /\ rows[t][Len(rows[t])] = "running"
    BY <1>1, <1>2, ResultsAssumption DEF EndTool, Statuses
  <2>3. u \in ToSet(Append([rows[t] EXCEPT ![Len(rows[t])] = u], u))
    BY <2>2, MarkerEnds
  <2>4. rows'[t] = Append([rows[t] EXCEPT ![Len(rows[t])] = u], u)
    BY <1>1, <2>1, <2>2
  <2> QED
    BY <2>1, <2>2, <2>3, <2>4 DEF Records
<1>3. CASE BlockTool \/ ContinueTool
  <2>1. PICK u \in Results \cup {"missing_prerequisite"} :
           /\ rows' = [rows EXCEPT ![t] = Append(@, u)]
           /\ cases' \in {Recorded(cases, t, u), Finished(Recorded(cases, t, u), t, u)}
    BY <1>3 DEF BlockTool, ContinueTool
  <2>2. u \in Statuses /\ u \in Ends /\ work.todo # <<>>
    BY <1>3, ResultsAssumption DEF BlockTool, ContinueTool, Statuses, Ends
  <2>3. t \in Tools /\ rows[t] \in Seq(Ends)
    BY <1>1, <2>2
  <2>4. rows'[t] = Append(rows[t], u)
    BY <1>1, <2>1, <2>3
  <2>5. u \in ToSet(Append(rows[t], u))
    BY <2>2, <2>3, ElementsMove
  <2> QED
    BY <2>1, <2>2, <2>4, <2>5 DEF Records
<1>4. CASE StartRun
  <2>1. \E chosen \in SUBSET Tools : cases' = WithPlanned(chosen)
    BY <1>4 DEF StartRun
  <2> QED
    BY <1>4, <2>1
<1>5. CASE Complete
  <2>1. Statuses \cup {"not_applicable", "running"} = Ends \cup {"not_applicable"}
    BY DEF Ends
  <2> QED
    BY <1>5, <2>1 DEF Complete
<1>6. CASE BeginTool \/ SkipTool \/ StopRun \/ CrashRun \/ StartContinue \/ ContinueEnds \/ ContinueCrashes
           \/ CloseFindings
  BY <1>6 DEF BeginTool, SkipTool, StopRun, CrashRun, StartContinue, ContinueEnds, ContinueCrashes, CloseFindings, bookVars
<1>7. CASE \E r \in Readers : Reads(r)
  BY <1>7 DEF Reads, Look, Insert, Derive, Commit, bookVars
<1>8. CASE GateTool
  <2>1. cases' = cases \/ (t \in Gated /\ cases' = Marked({t}))
    BY <1>8 DEF GateTool
  <2> QED
    BY <2>1
<1>9. CASE GateStops
  <2>1. PICK gated \in SUBSET Gated :
          \/ cases' = Marked(gated)
          \/ \E before \in SUBSET {u \in gated : Single(u)} : cases' = Marked(before)
    BY <1>9 DEF GateStops
  <2> QED
    BY <2>1
<1> QED
  BY <1>2, <1>3, <1>4, <1>5, <1>6, <1>7, <1>8, <1>9 DEF Next, Works

\* The cases stay entries, whatever a step does with them.
LEMMA CasesAreEntries ==
  ASSUME Inv, Next
  PROVE  cases' \in Seq(Entries)
<1>1. cases \in Seq(Entries)
  BY DEF Inv, Shape
<1>2. CASE \E chosen \in SUBSET Tools : cases' = WithPlanned(chosen)
  BY <1>1, <1>2, PlannedAreAdded
<1>3. CASE \E u \in Statuses : Records(u)
  <2>1. PICK u \in Statuses : Records(u)
    BY <1>3
  <2> DEFINE t == Head(work.todo)
  <2>2. Recorded(cases, t, u) \in Seq(Entries)
    BY <1>1, RecordedKeeps
  <2>3. Finished(Recorded(cases, t, u), t, u) \in Seq(Entries)
    BY <2>2, FinishedKeeps
  <2> QED
    BY <2>1, <2>2, <2>3 DEF Records
<1>4. CASE \E got \in [Categories -> Ends \cup {"not_applicable"}] : cases' = Finalized(got)
  BY <1>1, <1>4, FinalizedCloses
<1>5. CASE \E blocked \in SUBSET Gated : cases' = Marked(blocked)
  BY <1>1, <1>5, MarkedKeeps
<1> QED
  BY <1>1, <1>2, <1>3, <1>4, <1>5, CasesMove

\* The worker starts with a list of tools and goes through it.
LEMMA WorkIsTyped ==
  ASSUME Inv, Next
  PROVE  work' \in WorkRecords
<1>1. work \in WorkRecords
  BY DEF Inv, Shape
<1>2. /\ work.at \in {"off", "tools", "testing"} /\ work.todo \in Seq(Tools) /\ work.seen \in SUBSET Statuses
      /\ work.job \in {"none", "run"} \cup (Phases \cap DOMAIN PhaseTools)
  BY <1>1 DEF WorkRecords
<1>3. Off \in WorkRecords
  BY DEF Off, WorkRecords
<1>4. \A chosen \in SUBSET Tools : SetToSeq(chosen) \in Seq(Tools)
  <2> SUFFICES ASSUME NEW chosen \in SUBSET Tools PROVE SetToSeq(chosen) \in Seq(Tools)
    OBVIOUS
  <2>1. IsFiniteSet(chosen)
    BY ToolsAreFew, FS_Subset
  <2>2. SetToSeq(chosen) \in Seq(chosen)
    BY <2>1, SetIsListed
  <2> QED
    BY <2>2
<1>5. work.todo # <<>> => Tail(work.todo) \in Seq(Tools)
  BY <1>2, ElementsMove
<1>6. CASE StartRun
  <2>1. PICK chosen \in SUBSET Tools :
          work' = [Off EXCEPT !.at = "tools", !.job = "run", !.todo = SetToSeq(chosen)]
    BY <1>6 DEF StartRun
  <2> QED
    BY <1>4, <2>1 DEF Off, WorkRecords
<1>7. CASE StartContinue
  <2>1. PICK p \in Phases \cap DOMAIN PhaseTools, left \in SUBSET Tools :
          work' = [at |-> "tools", job |-> p, todo |-> SetToSeq(left), seen |-> {}]
    BY <1>7 DEF StartContinue, ContinueTools, ToolsOf
  <2> QED
    BY <1>4, <2>1 DEF WorkRecords
<1>8. CASE BeginTool
  BY <1>1, <1>8 DEF BeginTool, WorkRecords
<1>9. CASE EndTool \/ BlockTool \/ SkipTool \/ GateTool
  <2>1. work.todo # <<>>
    BY <1>9 DEF EndTool, BlockTool, SkipTool, GateTool, Inv, Course
  <2> QED
    BY <1>1, <1>3, <1>5, <1>9, <2>1 DEF EndTool, BlockTool, SkipTool, GateTool, WorkRecords
<1>10. CASE ContinueTool
  <2>1. PICK u \in Results : work' = [work EXCEPT !.todo = Tail(@), !.seen = @ \cup {u}]
    BY <1>10 DEF ContinueTool
  <2>2. u \in Statuses /\ Tail(work.todo) \in Seq(Tools) /\ work.seen \cup {u} \in SUBSET Statuses
    BY <1>2, <1>5, <1>10, ResultsAssumption DEF ContinueTool, Statuses
  <2> HIDE DEF Statuses
  <2> QED
    BY <1>1, <2>1, <2>2 DEF WorkRecords
<1>11. CASE GateStops \/ StopRun \/ CrashRun \/ Complete \/ ContinueEnds \/ ContinueCrashes
  BY <1>3, <1>11 DEF GateStops, StopRun, CrashRun, Complete, ContinueEnds, ContinueCrashes
<1>12. CASE CloseFindings \/ \E r \in Readers : Reads(r)
  BY <1>1, <1>12 DEF CloseFindings, Reads, Look, Insert, Derive, Commit
<1> QED
  BY <1>6, <1>7, <1>8, <1>9, <1>10, <1>11, <1>12 DEF Next, Works

\* What a reader has derived are phases that have begun.
LEMMA ReadIsTyped ==
  ASSUME Inv, Next
  PROVE  read' \in [Readers -> ReadRecords]
<1>1. read \in [Readers -> ReadRecords] /\ phase \in [Phases -> PhaseStatuses]
  BY DEF Inv, Shape
<1>2. CASE read' = read
  BY <1>1, <1>2
<1>3. ASSUME NEW r \in Readers, NEW x \in {"idle", "looked"}, read' = [read EXCEPT ![r].at = x]
      PROVE  read' \in [Readers -> ReadRecords]
  <2>1. [read[r] EXCEPT !.at = x] \in ReadRecords
    BY <1>1 DEF ReadRecords
  <2> QED
    BY <1>1, <1>3, <2>1
<1>4. ASSUME NEW r \in Readers, Derive(r) PROVE read' \in [Readers -> ReadRecords]
  <2>1. PICK c \in Picks, report \in BOOLEAN :
          LET seen == Synced(phase, c)
              new  == Reported(seen, report)
          IN read' = [read EXCEPT ![r] = [at |-> "derived", verdict |-> Readiness(seen),
                                          dirty |-> Restrict(new, ChangedRows(new))]]
    BY <1>4 DEF Derive
  <2> DEFINE seen == Synced(phase, c)
             new == Reported(seen, report)
             S == ChangedRows(new)
             d == Restrict(new, S)
  <2>2. d \in Written
    <3>1. /\ new \in [Phases -> PhaseStatuses]
          /\ \A p \in Phases : new[p] = phase[p] \/ new[p] \notin {"absent", "planned"}
      <4>1. /\ seen \in [Phases -> PhaseStatuses]
            /\ \A p \in Phases : seen[p] = phase[p] \/ seen[p] \notin {"absent", "planned"}
        BY <1>1, SyncedBegins
      <4>2. "completed" \in PhaseStatuses
        BY DEF PhaseStatuses, Statuses
      <4> HIDE DEF seen
      <4> QED
        BY <4>1, <4>2 DEF Reported
    <3>2. S \in SUBSET Phases /\ \A p \in S : new[p] \in PhaseStatuses \ {"absent", "planned"}
      BY <3>1 DEF ChangedRows
    <3>3. d \in [S -> PhaseStatuses \ {"absent", "planned"}]
      BY <3>2 DEF Restrict
    <3> HIDE DEF d, S, new
    <3> QED
      BY <3>2, <3>3 DEF Written
  <2>3. Readiness(seen) \in {"ready", "not_ready", "manual_review_required"}
    BY DEF Readiness
  <2> HIDE DEF d, new, seen
  <2>4. [at |-> "derived", verdict |-> Readiness(seen), dirty |-> d] \in ReadRecords
    BY <2>2, <2>3 DEF ReadRecords
  <2> QED
    BY <1>1, <2>1, <2>4 DEF seen, new, d
<1>5. ASSUME NEW r \in Readers, Commit(r) PROVE read' \in [Readers -> ReadRecords]
  <2>1. <<>> \in [{} -> PhaseStatuses \ {"absent", "planned"}]
    OBVIOUS
  <2>2. <<>> \in Written
    BY <2>1 DEF Written
  <2>3. NoRead \in ReadRecords
    BY <2>2 DEF NoRead, ReadRecords
  <2> QED
    BY <1>1, <1>5, <2>3 DEF Commit
<1>6. CASE Works \/ CloseFindings
  BY <1>2, <1>6 DEF Works, StartRun, BeginTool, EndTool, BlockTool, SkipTool, GateTool,
       GateStops, StopRun, CrashRun, Complete, StartContinue,
     ContinueTool, ContinueEnds, ContinueCrashes, CloseFindings
<1>7. CASE \E r \in Readers : Reads(r)
  BY <1>3, <1>4, <1>5, <1>7 DEF Reads, Look, Insert
<1> QED
  BY <1>6, <1>7 DEF Next

\* The worker keeps its course.
LEMMA CourseIsKept ==
  ASSUME Inv, Next
  PROVE  Course'
<1>1. /\ rows \in [Tools -> Seq(Ends)] /\ work \in WorkRecords /\ read \in [Readers -> ReadRecords] /\ Course
      /\ work.todo \in Seq(Tools)
  BY DEF Inv, Shape, WorkRecords
<1> DEFINE Kept == /\ work.at # "off" => status = "running" /\ work.job # "none"
                   /\ work.at = "off" => work.todo = <<>>
                   /\ work.at = "testing" =>
                         LET t == Head(work.todo) IN
                         /\ work.job = "run" /\ work.todo # <<>>
                         /\ rows[t] # <<>> /\ rows[t][Len(rows[t])] = "running"
<1>2. \A r \in Readers : read'[r].at = "derived" => AllThere'
  <2> SUFFICES ASSUME NEW r \in Readers, read'[r].at = "derived" PROVE AllThere
    BY PhasesMove
  <2>1. read' = read \/ \E e \in Readers : Reads(e)
    BY DEF Next, Works, StartRun, BeginTool, EndTool, BlockTool, SkipTool, GateTool,
       GateStops, StopRun, CrashRun, Complete, StartContinue,
       ContinueTool, ContinueEnds, ContinueCrashes, CloseFindings
  <2>2. CASE read' = read
    BY <1>1, <2>2 DEF Course
  <2>3. ASSUME NEW e \in Readers, Reads(e) PROVE AllThere
    <3>1. CASE e = r
      <4>1. Derive(e)
        BY <1>1, <2>3, <3>1 DEF Reads, Look, Insert, Commit, NoRead, ReadRecords
      <4> QED
        BY <4>1 DEF Derive
    <3>2. CASE e # r
      <4>1. read'[r] = read[r]
        BY <1>1, <2>3, <3>2 DEF Reads, Look, Insert, Derive, Commit
      <4> QED
        BY <1>1, <4>1 DEF Course
    <3> QED
      BY <3>1, <3>2
  <2> QED
    BY <2>1, <2>2, <2>3
<1>3. Kept'
  <2>1. Off.at = "off" /\ Off.todo = <<>>
    BY DEF Off
  <2>2. CASE StartRun
    BY <2>2 DEF StartRun, Off
  <2>3. CASE StartContinue
    <3>1. PICK p, q : /\ p \in Phases \cap DOMAIN PhaseTools
                     /\ work' = [at |-> "tools", job |-> p, todo |-> q, seen |-> {}]
                     /\ status' = "running"
      BY <2>3 DEF StartContinue
    <3>2. work'.job # "none" /\ work'.at = "tools"
      BY <3>1 DEF PhaseTools
    <3> QED
      BY <3>1, <3>2 DEF StartContinue
  <2>4. CASE BeginTool
    <3> DEFINE t == Head(work.todo)
    <3>1. /\ work.todo # <<>> /\ work.job = "run" /\ work'.todo = work.todo /\ work'.job = "run"
          /\ work'.at = "testing" /\ status' = status /\ work.at = "tools"
          /\ rows' = [rows EXCEPT ![t] = Append(@, "running")]
      BY <1>1, <2>4 DEF BeginTool, WorkRecords
    <3>2. t \in Tools /\ rows[t] \in Seq(Ends) /\ "running" \in Ends
      BY <1>1, <3>1 DEF Ends
    <3> HIDE DEF t
    <3>3. rows'[t] = Append(rows[t], "running")
      BY <1>1, <3>1, <3>2
    <3>4. rows'[t] # <<>> /\ rows'[t][Len(rows'[t])] = "running"
      BY <3>2, <3>3
    <3> QED
      BY <1>1, <3>1, <3>4 DEF t, Course
  <2>5. CASE EndTool \/ BlockTool \/ SkipTool \/ GateTool \/ ContinueTool
    BY <1>1, <2>1, <2>5 DEF EndTool, BlockTool, SkipTool, GateTool, ContinueTool, WorkRecords, Course
  <2>6. CASE GateStops \/ StopRun \/ CrashRun \/ Complete \/ ContinueEnds \/ ContinueCrashes
    BY <2>1, <2>6 DEF GateStops, StopRun, CrashRun, Complete, ContinueEnds, ContinueCrashes
  <2>7. CASE CloseFindings \/ \E r \in Readers : Reads(r)
    <3>1. UNCHANGED <<work, status, rows>>
      BY <2>7 DEF CloseFindings, Reads, Look, Insert, Derive, Commit, bookVars
    <3> QED
      BY <1>1, <3>1 DEF Course
  <2> QED
    BY <2>2, <2>3, <2>4, <2>5, <2>6, <2>7 DEF Next, Works
<1> QED
  BY <1>2, <1>3 DEF Course

\* Nothing has been recorded.
LEMMA InvInit == Init => Inv
<1> SUFFICES ASSUME Init PROVE Inv
  OBVIOUS
<1>1. Off \in WorkRecords /\ Off.at = "off" /\ Off.todo = <<>>
  BY DEF Off, WorkRecords
<1>2. <<>> \in [{} -> PhaseStatuses \ {"absent", "planned"}]
  OBVIOUS
<1>3. <<>> \in Written
  BY <1>2 DEF Written
<1>4. NoRead \in ReadRecords /\ NoRead.at = "idle"
  BY <1>3 DEF NoRead, ReadRecords
<1>5. Shape
  <2>1. phase \in [Phases -> PhaseStatuses] /\ rows \in [Tools -> Seq(Ends)] /\ cases \in Seq(Entries)
    BY DEF Init, PhaseStatuses
  <2>2. work \in WorkRecords /\ read \in [Readers -> ReadRecords]
    BY <1>1, <1>4 DEF Init
  <2> QED
    BY <2>1, <2>2 DEF Init, Shape
<1>6. Course
  BY <1>1, <1>4 DEF Init, Course
<1> QED
  BY <1>5, <1>6 DEF Inv

\* Every step keeps the types and the course.
LEMMA InvNext == Inv /\ [Next]_vars => Inv'
<1> SUFFICES ASSUME Inv, [Next]_vars PROVE Inv'
  OBVIOUS
<1>1. CASE UNCHANGED vars
  BY <1>1 DEF Inv, Shape, Course, AllThere, vars, bookVars
<1>2. CASE Next
  <2>1. rows' \in [Tools -> Seq(Ends)]
    <3>1. rows \in [Tools -> Seq(Ends)]
      BY DEF Inv, Shape
    <3> QED
      BY <1>2, <3>1, RowsMove DEF Longer
  <2>2. facts' = facts
    BY <1>2 DEF Next, Works, StartRun, BeginTool, EndTool, BlockTool, SkipTool, GateTool,
       GateStops, StopRun, CrashRun, Complete, StartContinue,
       ContinueTool, ContinueEnds, ContinueCrashes, CloseFindings, Reads, Look, Insert, Derive, Commit
  <2>3. status' \in {status, "running", "stopped", "auth_blocked", "failed", "completed", "ready"}
    BY <1>2 DEF Next, Works, StartRun, BeginTool, EndTool, BlockTool, SkipTool, GateTool,
       GateStops, StopRun, CrashRun, Complete, StartContinue,
       ContinueTool, ContinueEnds, ContinueCrashes, CloseFindings, Reads, Look, Insert, Derive, Commit
  <2>4. severe' \in BOOLEAN
    <3>1. severe' = severe \/ severe' = FALSE \/ \E u : Found(u)
      BY <1>2 DEF Next, Works, StartRun, BeginTool, EndTool, BlockTool, SkipTool, GateTool,
       GateStops, StopRun, CrashRun, Complete,
         StartContinue, ContinueTool, ContinueEnds, ContinueCrashes, CloseFindings, Reads, Look, Insert, Derive,
         Commit
    <3>2. severe \in BOOLEAN /\ \A u : (severe \/ u = "finding_created") \in BOOLEAN
      BY DEF Inv, Shape
    <3> QED
      BY <3>1, <3>2 DEF Found
  <2> QED
    BY <1>2, <2>1, <2>2, <2>3, <2>4, PhasesMove, CasesAreEntries, WorkIsTyped, ReadIsTyped, CourseIsKept
       DEF Inv, Shape
<1> QED
  BY <1>1, <1>2

\* The types and the control hold in every state of every run.
LEMMA InvAlways == Spec => []Inv
<1> QED
  BY InvInit, InvNext, PTL DEF Spec

-------------------------------------------------------------------------------
(***************************************************************************)
(* The types that the run checks, with the bound                           *)
(***************************************************************************)
\* The tool runs that the worker may still record: of a tool that begins, its
\* marker and its own.
Left == IF work.job = "run" THEN 2 * Len(work.todo) - (IF work.at = "testing" THEN 1 ELSE 0)
        ELSE Len(work.todo)

\* Those recorded and those to come stay within the bound.
BoundInv == IsFiniteSet(Runs) /\ RowCount + Left <= MaxRows

\* One row more is one tool run more.
LEMMA RunsGrow ==
  ASSUME Inv, IsFiniteSet(Runs), NEW t \in Tools, NEW q \in Seq(Ends), Longer(t, q)
  PROVE  IsFiniteSet(Runs') /\ RowCount' = RowCount + 1
<1>1. rows \in [Tools -> Seq(Ends)] /\ rows' = [rows EXCEPT ![t] = q] /\ Len(q) = Len(rows[t]) + 1
  BY DEF Inv, Shape, Longer
<1> DEFINE x == <<t, Len(rows[t]) + 1>>
<1>2. /\ DOMAIN rows[t] = 1..Len(rows[t]) /\ Len(rows[t]) \in Nat
      /\ DOMAIN q = 1..(Len(rows[t]) + 1)
  BY <1>1
<1>3. DOMAIN q = DOMAIN rows[t] \cup {Len(rows[t]) + 1} /\ Len(rows[t]) + 1 \notin DOMAIN rows[t]
  BY <1>2
<1>4. Runs' = Runs \cup {x} /\ x \notin Runs
  <2>1. \A u \in Tools : rows'[u] = IF u = t THEN q ELSE rows[u]
    BY <1>1
  <2>2. \A y : y \in Runs <=> \E u \in Tools : \E i \in DOMAIN rows[u] : y = <<u, i>>
    BY DEF Runs
  <2>3. \A y : y \in Runs' <=> \E u \in Tools : \E i \in DOMAIN rows'[u] : y = <<u, i>>
    BY DEF Runs
  <2>4. x \notin Runs
    BY <1>3, <2>2
  <2>5. ASSUME NEW y \in Runs' PROVE y \in Runs \cup {x}
    BY <1>3, <2>1, <2>2, <2>3
  <2>6. ASSUME NEW y \in Runs \cup {x} PROVE y \in Runs'
    BY <1>3, <2>1, <2>2, <2>3
  <2> QED
    BY <2>4, <2>5, <2>6
<1> HIDE DEF x
<1>5. /\ IsFiniteSet(Runs \cup {x})
      /\ Cardinality(Runs \cup {x}) = IF x \in Runs THEN Cardinality(Runs) ELSE Cardinality(Runs) + 1
  BY FS_AddElement
<1>6. IsFiniteSet(Runs') /\ Cardinality(Runs') = Cardinality(Runs) + 1
  BY <1>4, <1>5
<1> QED
  BY <1>6 DEF RowCount

\* The worker starts only what is within the bound.
LEMMA BoundInvNext == Inv /\ BoundInv /\ [Next]_vars => BoundInv'
<1> SUFFICES ASSUME Inv, BoundInv, [Next]_vars PROVE BoundInv'
  OBVIOUS
<1>1. /\ work \in WorkRecords /\ work.todo \in Seq(Tools) /\ Len(work.todo) \in Nat
      /\ work.at = "testing" => work.job = "run" /\ work.todo # <<>>
  BY DEF Inv, Shape, Course, WorkRecords
<1>2. RowCount \in Nat /\ Left \in Nat /\ RowCount + Left <= MaxRows /\ IsFiniteSet(Runs) /\ MaxRows \in Nat
  <2>1. work.todo # <<>> => Len(work.todo) >= 1
    BY <1>1
  <2>2. Left \in Nat
    BY <1>1, <2>1 DEF Left
  <2> QED
    BY <2>2, FS_CardinalityType, RowsAssumption DEF RowCount, BoundInv
<1>3. CASE UNCHANGED vars
  BY <1>3 DEF BoundInv, RowCount, Runs, Left, vars, bookVars
<1>4. ASSUME rows' = rows, Left' \in Int, RowCount + Left' <= MaxRows PROVE BoundInv'
  BY <1>2, <1>4 DEF BoundInv, RowCount, Runs
<1>5. \A chosen \in SUBSET Tools : /\ Len(SetToSeq(chosen)) = Cardinality(chosen)
                                   /\ Cardinality(chosen) \in Nat
  <2> SUFFICES ASSUME NEW chosen \in SUBSET Tools
               PROVE  Len(SetToSeq(chosen)) = Cardinality(chosen) /\ Cardinality(chosen) \in Nat
    OBVIOUS
  <2>1. IsFiniteSet(chosen)
    BY ToolsAreFew, FS_Subset
  <2> QED
    BY <2>1, SetIsListed
<1>6. Off.at = "off" /\ Off.job = "none" /\ Len(Off.todo) = 0
  BY DEF Off
<1>7. CASE StartRun
  <2>1. PICK chosen \in SUBSET Tools :
          /\ RowCount + 2 * Cardinality(chosen) <= MaxRows
          /\ work' = [Off EXCEPT !.at = "tools", !.job = "run", !.todo = SetToSeq(chosen)]
    BY <1>7 DEF StartRun
  <2>2. Left' = 2 * Cardinality(chosen)
    BY <1>5, <2>1 DEF Left, Off
  <2> QED
    BY <1>4, <1>5, <1>7, <2>1, <2>2 DEF StartRun
<1>8. CASE StartContinue
  <2>1. PICK p \in Phases \cap DOMAIN PhaseTools, left \in SUBSET Tools :
          /\ RowCount + Cardinality(left) <= MaxRows
          /\ work' = [at |-> "tools", job |-> p, todo |-> SetToSeq(left), seen |-> {}]
    BY <1>8 DEF StartContinue, ContinueTools, ToolsOf
  <2>2. p # "run"
    BY DEF PhaseTools
  <2>3. Left' = Cardinality(left)
    BY <1>5, <2>1, <2>2 DEF Left
  <2> QED
    BY <1>4, <1>5, <1>8, <2>1, <2>3 DEF StartContinue
<1>9. CASE \/ (GateTool /\ work' = Off) \/ GateStops \/ StopRun \/ CrashRun \/ Complete
           \/ ContinueEnds \/ ContinueCrashes
  <2>1. work' = Off /\ rows' = rows
    BY <1>9 DEF GateTool, GateStops, StopRun, CrashRun, Complete, ContinueEnds, ContinueCrashes, bookVars
  <2>2. Left' = 0
    BY <1>6, <2>1 DEF Left
  <2> QED
    BY <1>2, <1>4, <2>1, <2>2
<1>10. CASE BeginTool \/ EndTool \/ BlockTool \/ ContinueTool
  <2> DEFINE t == Head(work.todo)
  <2>1. work.todo # <<>> /\ t \in Tools /\ Len(Tail(work.todo)) = Len(work.todo) - 1
    <3>1. work.todo # <<>>
      BY <1>1, <1>10 DEF BeginTool, EndTool, BlockTool, ContinueTool
    <3> QED
      BY <1>1, <3>1
  <2>2. RowCount' = RowCount + 1 /\ IsFiniteSet(Runs')
    <3>1. rows' # rows
      <4>1. \E u : \/ rows' = [rows EXCEPT ![t] = Append(@, u)]
                   \/ rows' = [rows EXCEPT ![t] = Append([@ EXCEPT ![Len(@)] = u], u)]
        BY <1>10 DEF BeginTool, EndTool, BlockTool, ContinueTool
      <4>2. rows[t] \in Seq(Ends) /\ DOMAIN rows = Tools
        BY <2>1 DEF Inv, Shape
      <4>3. ASSUME NEW u PROVE /\ Len(Append(rows[t], u)) # Len(rows[t])
                               /\ Len(Append([rows[t] EXCEPT ![Len(rows[t])] = u], u)) # Len(rows[t])
        <5> DEFINE q == rows[t]
                   n == Len(q)
                   m == [q EXCEPT ![n] = u]
        <5>1. n \in Nat /\ DOMAIN q = 1..n /\ q \in [1..n -> Ends]
          BY <4>2
        <5>2. m \in [1..n -> Ends \cup {u}]
          <6> HIDE DEF q, n
          <6> QED
            BY <5>1
        <5> HIDE DEF m, n
        <5>3. m \in Seq(Ends \cup {u}) /\ Len(m) = n /\ q \in Seq(Ends \cup {u})
          BY <4>2, <5>1, <5>2
        <5>4. Len(Append(m, u)) = n + 1
          BY <5>3
        <5>5. Len(Append(q, u)) = Len(q) + 1
          BY <5>3
        <5> QED
          BY <5>1, <5>4, <5>5 DEF n, m
      <4> QED
        BY <2>1, <4>1, <4>2, <4>3
    <3>2. CASE Next
      <4>1. PICK q \in Seq(Ends) : Longer(t, q)
        BY <3>1, <3>2, RowsMove
      <4> QED
        BY <1>2, <2>1, <4>1, RunsGrow
    <3> QED
      BY <1>3, <3>1, <3>2 DEF vars, bookVars
  <2>3. Left' = Left - 1 \/ Left' = Left - 2
    <3>1. CASE BeginTool
      <4>1. work'.at = "testing" /\ work'.todo = work.todo /\ work'.job = work.job /\ work.job = "run" /\ work.at = "tools"
        BY <1>1, <3>1 DEF BeginTool, WorkRecords
      <4> QED
        BY <1>1, <4>1 DEF Left
    <3>2. CASE EndTool
      <4>1. work'.at = "tools" /\ work'.todo = Tail(work.todo) /\ work'.job = work.job /\ work.at = "testing"
        BY <1>1, <3>2 DEF EndTool, WorkRecords
      <4> QED
        BY <1>1, <2>1, <4>1 DEF Left
    <3>3. CASE BlockTool
      <4>1. work'.at = "tools" /\ work'.todo = Tail(work.todo) /\ work'.job = work.job /\ work.at = "tools" /\ work.job = "run"
        BY <1>1, <3>3 DEF BlockTool, WorkRecords
      <4> QED
        BY <1>1, <2>1, <4>1 DEF Left
    <3>4. CASE ContinueTool
      <4>1. work'.at = "tools" /\ work'.todo = Tail(work.todo) /\ work'.job = work.job /\ work.at = "tools" /\ work.job # "run"
        BY <1>1, <3>4 DEF ContinueTool, WorkRecords
      <4> QED
        BY <1>1, <2>1, <4>1 DEF Left
    <3> QED
      BY <1>10, <3>1, <3>2, <3>3, <3>4
  <2> QED
    BY <1>2, <2>2, <2>3 DEF BoundInv
<1>11. CASE CloseFindings \/ \E r \in Readers : Reads(r)
  <2>1. UNCHANGED <<work, rows>>
    BY <1>11 DEF CloseFindings, Reads, Look, Insert, Derive, Commit, bookVars
  <2>2. Left' = Left
    BY <2>1 DEF Left
  <2> QED
    BY <1>2, <1>4, <2>1, <2>2
<1>12. CASE SkipTool \/ (GateTool /\ work' # Off)
  <2>1. /\ rows' = rows /\ work.todo # <<>> /\ work'.job = "run" /\ work.job = "run"
        /\ work.at = "tools" /\ work'.at = "tools" /\ work'.todo = Tail(work.todo)
    BY <1>1, <1>12 DEF SkipTool, GateTool, bookVars, WorkRecords
  <2>2. Len(Tail(work.todo)) = Len(work.todo) - 1 /\ Len(work.todo) >= 1
    BY <1>1, <2>1
  <2>3. Left' = Left - 2 /\ Left' \in Int
    BY <1>1, <2>1, <2>2 DEF Left
  <2> QED
    BY <1>2, <1>4, <2>1, <2>3
<1> QED
  BY <1>3, <1>7, <1>8, <1>9, <1>10, <1>11, <1>12 DEF Next, Works

\* So the bound is kept.
LEMMA BoundAlways == Spec => []BoundInv
<1>1. Init => BoundInv
  <2> SUFFICES ASSUME Init PROVE BoundInv
    OBVIOUS
  <2>1. Runs = {}
    BY DEF Init, Runs
  <2>2. IsFiniteSet(Runs) /\ RowCount = 0
    BY <2>1, FS_EmptySet DEF RowCount
  <2>3. Left = 0
    BY DEF Init, Left, Off
  <2> QED
    BY <2>2, <2>3, RowsAssumption DEF BoundInv
<1> QED
  BY <1>1, InvAlways, BoundInvNext, PTL DEF Spec

\* All this is more than the run's type invariant asks for.
LEMMA Typed == Inv /\ BoundInv => PhaseTypeOK
<1> SUFFICES ASSUME Inv, BoundInv PROVE PhaseTypeOK
  OBVIOUS
<1>1. /\ rows \in [Tools -> Seq(Ends)] /\ cases \in Seq(Entries) /\ work.todo \in Seq(Tools)
      /\ work.at = "testing" => work.todo # <<>>
  BY DEF Inv, Shape, Course, WorkRecords
<1>2. RowCount <= MaxRows
  <2>1. Len(work.todo) \in Nat /\ (work.todo # <<>> => Len(work.todo) >= 1)
    BY <1>1
  <2>2. Left \in Nat
    BY <1>1, <2>1 DEF Left
  <2>3. RowCount \in Nat
    BY FS_CardinalityType DEF RowCount, BoundInv
  <2> QED
    BY <2>2, <2>3, RowsAssumption DEF BoundInv
<1>3. \A t \in Tools : ToSet(rows[t]) \subseteq Statuses \cup {"running"}
  BY <1>1, ElementsMove DEF Ends
<1>4. ASSUME NEW i \in DOMAIN cases
      PROVE  /\ cases[i].name \in Tools \cup Categories
             /\ cases[i].status \in CaseStatuses
  <2>1. cases[i] \in Entries
    BY <1>1
  <2> QED
    BY <2>1 DEF Entries
<1> QED
  BY <1>2, <1>3, <1>4 DEF Inv, Shape, Course, PhaseTypeOK

\* Every variable has its type, and a reader that has found a verdict had all
\* of the phases to find it from (case_management.py:
\* ensure_scan_phases; models.py: ScanPhase, TestCase, ToolRun).
THEOREM BooksAreTyped == Spec => []PhaseTypeOK
<1> QED
  BY InvAlways, BoundAlways, Typed, PTL

-------------------------------------------------------------------------------
(***************************************************************************)
(* Phases                                                                  *)
(***************************************************************************)
\* A phase that has begun is never planned again, whatever a reader writes that
\* read the phases before it began (case_management.py: ensure_scan_phases,
\* mark_phase, and sessions that write what they have changed).
THEOREM PhasesOnlyGoForward == Spec => PhasesGoForward
<1>1. Inv /\ [Next]_vars => [\A p \in Phases : Begun(phase, p) => Begun(phase', p)]_vars
  BY PhasesMove
<1> QED
  BY <1>1, InvAlways, PTL DEF Spec, PhasesGoForward

\* What a reader reports as ready it has derived from phases of which none of
\* the authenticated part has failed.
LEMMA ReadyIsDerived ==
  ASSUME Inv, NEW c \in Picks, Readiness(Synced(phase, c)) = "ready"
  PROVE  /\ ~severe /\ NotRun = {}
         /\ \A p \in AuthPhases :
              (\E t \in ToolsOf(p) : Failed(t)) => \E t \in ToolsOf(p) : "finding_created" \in ToSet(rows[t])
<1> DEFINE new == Synced(phase, c)
<1>1. ~severe /\ NotRun = {} /\ \A p \in AuthPhases : new[p] # "execution_error"
  BY DEF Readiness
<1>2. ASSUME NEW p \in AuthPhases, NEW t \in ToolsOf(p), Failed(t)
      PROVE  \E u \in ToolsOf(p) : "finding_created" \in ToSet(rows[u])
  <2> DEFINE seen == {c[u] : u \in ToolsOf(p) \cap HasRow}
  <2>1. p \in Phases /\ ToolsOf(p) \subseteq Tools
    BY DEF AuthPhases, ToolsOf
  <2>2. t \in HasRow /\ c[t] = "execution_error"
    BY <1>2, <2>1 DEF Failed, HasRow, Picks
  <2>3. "execution_error" \in seen
    BY <2>2
  <2>4. new[p] = Derived(seen)
    BY <2>1, <2>3 DEF Synced
  <2>5. "finding_created" \in seen
    BY <1>1, <2>3, <2>4 DEF Derived
  <2>6. PICK u \in ToolsOf(p) \cap HasRow : c[u] = "finding_created"
    BY <2>5
  <2> QED
    BY <2>6 DEF Picks
<1> QED
  BY <1>1, <1>2

\* Ready is only said of a scan without an open severe finding whose required
\* tools have been tried, and no phase of whose authenticated part has failed
\* without a finding (case_management.py: production_readiness_for_scan).
THEOREM ReadinessIsEarned == Spec => ReadyIsEarned
<1> DEFINE Earned == \A r \in Readers : read'[r].verdict = "ready" /\ read[r].verdict # "ready" =>
        /\ ~severe /\ NotRun = {}
        /\ \A p \in AuthPhases :
            (\E t \in ToolsOf(p) : Failed(t)) =>
                \E t \in ToolsOf(p) : "finding_created" \in ToSet(rows[t])
<1>1. Inv /\ [Next]_vars => [Earned]_vars
  <2> SUFFICES ASSUME Inv, Next, NEW r \in Readers, read'[r].verdict = "ready", read[r].verdict # "ready"
               PROVE  /\ ~severe /\ NotRun = {}
                      /\ \A p \in AuthPhases :
                          (\E t \in ToolsOf(p) : Failed(t)) =>
                              \E t \in ToolsOf(p) : "finding_created" \in ToSet(rows[t])
    OBVIOUS
  <2>1. read \in [Readers -> ReadRecords]
    BY DEF Inv, Shape
  <2>2. PICK e \in Readers : Reads(e)
    BY DEF Next, Works, StartRun, BeginTool, EndTool, BlockTool, SkipTool, GateTool,
       GateStops, StopRun, CrashRun, Complete, StartContinue,
       ContinueTool, ContinueEnds, ContinueCrashes, CloseFindings
  <2>3. e = r
    BY <2>1, <2>2 DEF Reads, Look, Insert, Derive, Commit
  <2>4. Derive(r)
    BY <2>1, <2>2, <2>3 DEF Reads, Look, Insert, Commit, NoRead, ReadRecords
  <2>5. PICK c \in Picks : read'[r].verdict = Readiness(Synced(phase, c))
    BY <2>1, <2>4 DEF Derive
  <2> QED
    BY <2>5, ReadyIsDerived
<1> QED
  BY <1>1, InvAlways, PTL DEF Spec, ReadyIsEarned

-------------------------------------------------------------------------------
(***************************************************************************)
(* Test cases                                                              *)
(***************************************************************************)
\* A completed scan has no test case that is still planned, however many runs
\* and continuations were stopped or crashed before (prompt_runner.py:
\* _finalize_test_case_lifecycle).
THEOREM CasesAreClosed == Spec => []CasesAreSettled
<1>1. Init => CasesAreSettled
  BY DEF Init, CasesAreSettled
<1>2. Inv /\ CasesAreSettled /\ [Next]_vars => CasesAreSettled'
  <2> SUFFICES ASSUME Inv, CasesAreSettled, [Next]_vars, status' = "completed"
               PROVE  \A i \in DOMAIN cases' : cases'[i].status # "planned"
    BY DEF CasesAreSettled
  <2>1. CASE Complete
    <3>1. PICK got \in [Categories -> Statuses \cup {"not_applicable", "running"}] : cases' = Finalized(got)
      BY <2>1 DEF Complete
    <3>2. got \in [Categories -> Ends \cup {"not_applicable"}]
      BY <3>1 DEF Ends
    <3>3. cases \in Seq(Entries)
      BY DEF Inv, Shape
    <3>4. /\ Finalized(got) \in Seq(Entries)
          /\ \A i \in 1..Len(Finalized(got)) : Finalized(got)[i].status # "planned"
      BY <3>2, <3>3, FinalizedCloses
    <3> QED
      BY <3>1, <3>4
  <2>2. CASE UNCHANGED <<status, cases>>
    BY <2>2 DEF CasesAreSettled
  <2>3. Complete \/ UNCHANGED <<status, cases>>
    <3>1. ASSUME work.at # "off" PROVE status = "running"
      BY <3>1 DEF Inv, Course
    <3>2. CASE UNCHANGED vars
      BY <3>2 DEF vars, bookVars
    <3>3. CASE BeginTool \/ EndTool \/ BlockTool \/ SkipTool \/ GateTool \/ ContinueTool \/ ContinueCrashes
      BY <3>1, <3>3 DEF BeginTool, EndTool, BlockTool, SkipTool, GateTool, ContinueTool, ContinueCrashes
    <3>4. CASE StartRun \/ GateStops \/ StopRun \/ CrashRun \/ StartContinue \/ ContinueEnds
      BY <3>4 DEF StartRun, GateStops, StopRun, CrashRun, StartContinue, ContinueEnds
    <3>5. CASE CloseFindings \/ \E r \in Readers : Reads(r)
      BY <3>5 DEF CloseFindings, Reads, Look, Insert, Derive, Commit, bookVars
    <3> QED
      BY <3>2, <3>3, <3>4, <3>5 DEF Next, Works
  <2> QED
    BY <2>1, <2>2, <2>3
<1> QED
  BY <1>1, <1>2, InvAlways, PTL DEF Spec

\* The case of a category names the tool that heads it, and claims a good end
\* only if some tool of the category has come to it.
Evident(e, rs) ==
    e.name \in Categories =>
        /\ e.tool = Head(CategoryTools[e.name])
        /\ e.status \in {"completed", "finding_created"} =>
              \E t \in ToSet(CategoryTools[e.name]) \cap Tools : e.status \in ToSet(rs[t])

\* So it is with every case of the book.
EvidenceInv == \A i \in 1..Len(cases) : Evident(cases[i], rows)

\* No step takes away what a case has claimed.
LEMMA EvidenceStays ==
  ASSUME Inv, Next, NEW e, Evident(e, rows)
  PROVE  Evident(e, rows')
<1>1. rows \in [Tools -> Seq(Ends)]
  BY DEF Inv, Shape
<1>2. \A t \in Tools : ToSet(rows[t]) \ {"running"} \subseteq ToSet(rows'[t])
  BY <1>1, RowsMove DEF Longer
<1> QED
  BY <1>2 DEF Evident

\* A result is recorded with the newest case of its tool, which may be that of
\* a category: then the tool that has come to it heads the category.
LEMMA EvidenceInvNext == Inv /\ EvidenceInv /\ [Next]_vars => EvidenceInv'
<1> SUFFICES ASSUME Inv, EvidenceInv, [Next]_vars PROVE EvidenceInv'
  OBVIOUS
<1>1. CASE UNCHANGED vars
  BY <1>1 DEF EvidenceInv, Evident, vars, bookVars
<1>2. CASE Next
  <2>1. cases \in Seq(Entries) /\ \A i \in 1..Len(cases) : Evident(cases[i], rows')
    BY <1>2, EvidenceStays DEF Inv, Shape, EvidenceInv
  <2>2. CASE cases' = cases
    BY <2>1, <2>2 DEF EvidenceInv
  <2>3. CASE \E chosen \in SUBSET Tools : cases' = WithPlanned(chosen)
    <3>1. PICK chosen \in SUBSET Tools : cases' = WithPlanned(chosen)
      BY <2>3
    <3>2. \A i \in 1..Len(cases') : \/ i \in 1..Len(cases) /\ cases'[i] = cases[i]
                                    \/ \E t \in Tools : cases'[i] = Case(t, t, "planned")
      BY <2>1, <3>1, PlannedAreAdded
    <3>3. \A t \in Tools : Evident(Case(t, t, "planned"), rows')
      BY NamesApart DEF Evident, Case
    <3> QED
      BY <2>1, <3>2, <3>3 DEF EvidenceInv
  <2>4. CASE work.todo # <<>> /\ \E u \in Statuses : Records(u) /\ u \in ToSet(rows'[Head(work.todo)])
    <3> DEFINE t == Head(work.todo)
    <3>1. PICK u \in Statuses : Records(u) /\ u \in ToSet(rows'[t])
      BY <2>4
    <3>2. t \in Tools
      BY <2>4 DEF Inv, Shape, WorkRecords
    <3> HIDE DEF t
    <3>3. /\ Len(cases') = Len(cases)
          /\ \A i \in 1..Len(cases) :
               /\ cases'[i].name = cases[i].name /\ cases'[i].tool = cases[i].tool
               /\ cases'[i].status # cases[i].status =>
                     cases'[i].status = u /\ (cases[i].tool = t \/ cases[i].name = t)
      <4> DEFINE one == Recorded(cases, t, u)
                 two == Finished(one, t, u)
      <4>1. /\ one \in Seq(Entries) /\ Len(one) = Len(cases)
            /\ \A i \in 1..Len(cases) :
                 /\ one[i].name = cases[i].name /\ one[i].tool = cases[i].tool
                 /\ one[i].status # cases[i].status => one[i].status = u /\ cases[i].tool = t
        BY <2>1, RecordedKeeps
      <4>2. /\ Len(two) = Len(one)
            /\ \A i \in 1..Len(one) :
                 /\ two[i].name = one[i].name /\ two[i].tool = one[i].tool
                 /\ two[i].status # one[i].status => two[i].status = u /\ one[i].name = t
        BY <4>1, FinishedKeeps
      <4>3. cases' = one \/ cases' = two
        BY <3>1 DEF Records, t
      <4> HIDE DEF one, two
      <4> QED
        BY <4>1, <4>2, <4>3
    <3>4. ASSUME NEW i \in 1..Len(cases) PROVE Evident(cases'[i], rows')
      <4>1. CASE cases'[i].status = cases[i].status
        BY <2>1, <3>3, <4>1 DEF Evident
      <4>2. CASE cases'[i].status # cases[i].status
        <5> SUFFICES ASSUME cases[i].name \in Categories PROVE Evident(cases'[i], rows')
          BY <3>3 DEF Evident
        <5>1. cases'[i].status = u /\ cases[i].tool = t /\ t = Head(CategoryTools[cases[i].name])
          BY <2>1, <3>2, <3>3, <4>2, NamesApart DEF Evident
        <5>2. t \in ToSet(CategoryTools[cases[i].name]) \cap Tools
          BY <3>2, <5>1, HeadsAreTools
        <5> QED
          BY <3>1, <3>3, <5>1, <5>2 DEF Evident
      <4> QED
        BY <4>1, <4>2
    <3> QED
      BY <3>3, <3>4 DEF EvidenceInv
  <2>5. CASE Complete /\ \E c \in Picks : \E got \in [Categories -> Ends \cup {"not_applicable"}] :
                  (\A k \in Categories : got[k] \in CoverageOf(k, c)) /\ cases' = Finalized(got)
    <3>1. PICK c \in Picks, got \in [Categories -> Ends \cup {"not_applicable"}] :
                  (\A k \in Categories : got[k] \in CoverageOf(k, c)) /\ cases' = Finalized(got)
      BY <2>5
    <3>2. rows' = rows
      BY <2>5 DEF Complete
    <3>3. ASSUME NEW k \in Categories PROVE Evident(Case(k, Head(CategoryTools[k]), got[k]), rows')
      <4>1. got[k] \in {"completed", "finding_created"} =>
               \E t \in ToSet(CategoryTools[k]) \cap Tools : got[k] \in ToSet(rows[t])
        BY <3>1, CoverageIsEvident
      <4> QED
        BY <3>2, <4>1 DEF Evident, Case
    <3>4. ASSUME NEW i \in 1..Len(cases') PROVE Evident(cases'[i], rows')
      <4>1. \/ /\ i \in 1..Len(cases) /\ cases'[i].name = cases[i].name /\ cases'[i].tool = cases[i].tool
               /\ cases'[i].status # cases[i].status => cases'[i].status = "missing_prerequisite"
            \/ \E k \in Categories : cases'[i] = Case(k, Head(CategoryTools[k]), got[k])
        BY <2>1, <3>1, FinalizedCloses
      <4>2. CASE /\ i \in 1..Len(cases) /\ cases'[i].name = cases[i].name /\ cases'[i].tool = cases[i].tool
                 /\ cases'[i].status # cases[i].status => cases'[i].status = "missing_prerequisite"
        BY <2>1, <4>2 DEF Evident
      <4>3. CASE \E k \in Categories : cases'[i] = Case(k, Head(CategoryTools[k]), got[k])
        BY <3>3, <4>3
      <4> QED
        BY <4>1, <4>2, <4>3
    <3> QED
      BY <3>4 DEF EvidenceInv
  <2>6. CASE \E blocked \in SUBSET Gated : cases' = Marked(blocked)
    <3>1. PICK blocked \in SUBSET Gated : cases' = Marked(blocked)
      BY <2>6
    <3>2. /\ Len(cases') = Len(cases)
          /\ \A i \in 1..Len(cases) :
               /\ cases'[i].name = cases[i].name /\ cases'[i].tool = cases[i].tool
               /\ cases'[i].status # cases[i].status => cases'[i].status = "coverage_gap_auth_blocked"
      BY <2>1, <3>1, MarkedKeeps
    <3> QED
      BY <2>1, <3>2 DEF EvidenceInv, Evident
  <2> QED
    BY <1>2, <2>2, <2>3, <2>4, <2>5, <2>6, CasesMove
<1> QED
  BY <1>1, <1>2

\* A coverage case claims a good end only for a category of which some tool has
\* come to that end (prompt_runner.py: _deterministic_coverage_matrix,
\* _record_tool).
THEOREM CoverageIsEarned == Spec => []CoverageHasEvidence
<1>1. Init => EvidenceInv
  BY DEF Init, EvidenceInv
<1>2. Inv /\ EvidenceInv => CoverageHasEvidence
  <2> SUFFICES ASSUME Inv, EvidenceInv, NEW i \in DOMAIN cases, cases[i].name \in Categories,
                      cases[i].status \in {"completed", "finding_created"}
               PROVE  \E t \in ToSet(CategoryTools[cases[i].name]) \cap Tools :
                          cases[i].status \in ToSet(rows[t])
    BY DEF CoverageHasEvidence
  <2>1. i \in 1..Len(cases)
    BY DEF Inv, Shape
  <2> QED
    BY <2>1 DEF EvidenceInv, Evident
<1> QED
  BY <1>1, <1>2, InvAlways, EvidenceInvNext, PTL DEF Spec

===============================================================================
