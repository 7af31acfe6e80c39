---------------------------- MODULE LocalStorage ----------------------------
(***************************************************************************)
(* The storage quota of an origin (crates/core/src/security/quota.rs,      *)
(* src/render/security/mod.rs) in front of the debounced stores of         *)
(* StorageDebounce: tabs that navigate, each with its own capability       *)
(* policy, charging one ledger; and the process that ends and starts again.*)
(*                                                                         *)
(* StorageStore travels from the UI thread to the dispatch loop in a FIFO  *)
(* channel, so accepting a write and submitting it are one step here; a    *)
(* command still in the channel is lost with the buffer by a restart.      *)
(***************************************************************************)
EXTENDS StorageDebounce, Functions

CONSTANTS
  Tabs, StartTab,
  Urls,               \* URLs documents are loaded from
  AboutBlank,         \* the start page and new tabs: a document without logic
  StartURLs,          \* what a launch shows: the start page, or a file it is given
  DefaultURL,         \* default_chrome_url, what its policy is built for
  DomainOf,           \* get_current_domain
  QuotaOf,            \* the tier of CapabilityPolicy::new
  estimate_value_bytes,
  STORAGE_RATE_LIMIT_WRITES_PER_SEC,
  MaxRestarts         \* bound

ASSUME StorageAssumption ==
  /\ StartTab \in Tabs
  /\ {AboutBlank, DefaultURL} \subseteq Urls /\ StartURLs \subseteq Urls
  /\ DomainOf \in [Urls -> Domains]
  /\ QuotaOf \in [Urls -> Nat]
  /\ estimate_value_bytes \in [Values -> Nat]
  /\ STORAGE_RATE_LIMIT_WRITES_PER_SEC \in Nat
  /\ MaxRestarts \in Nat

VARIABLES
  launch,      \* the document this process was started on
  tabs,        \* committed URL and capability policy of each tab
  ledger,      \* StorageUsageLedger: bytes charged per domain in this process
  inherited,   \* bytes each store held when this process started
  restarts

vars == <<debounceVars, launch, tabs, ledger, inherited, restarts>>

-----------------------------------------------------------------------------

CapabilityPolicy == [origin_key : Domains, quota_bytes : Nat, write_count_this_second : Nat]
Tab == [committed_url : Urls, capability_policy : CapabilityPolicy]

TypeOK ==
  /\ DebounceTypeOK
  /\ launch \in StartURLs
  /\ tabs \in [Tabs -> Tab]
  /\ ledger \in [Domains -> Nat] /\ inherited \in [Domains -> Nat]
  /\ restarts \in 0..MaxRestarts

capability_policy_for(url) ==
  [origin_key |-> DomainOf[url], quota_bytes |-> QuotaOf[url], write_count_this_second |-> 0]

NewTab(url, policyUrl) ==
  [committed_url |-> url, capability_policy |-> capability_policy_for(policyUrl)]

\* The window builds its first tab for DefaultURL and moves committed_url to
\* the start document without rebuilding the policy.
StartTabs(url) ==
  [t \in Tabs |-> IF t = StartTab THEN NewTab(url, DefaultURL)
                                  ELSE NewTab(AboutBlank, AboutBlank)]

Bytes(records) == SumFunction([k \in DOMAIN records |-> estimate_value_bytes[records[k]]])

AtRest(d) == Bytes(db[d])

Init ==
  /\ DebounceInit
  /\ launch \in StartURLs /\ tabs = StartTabs(launch)
  /\ ledger = [d \in Domains |-> 0]
  /\ inherited = [d \in Domains |-> 0]
  /\ restarts = 0

-----------------------------------------------------------------------------

\* Mutation: a commit forgets what the origin has been charged.
commit_refunds(t, url) ==
  /\ tabs' = [tabs EXCEPT ![t] = NewTab(url, url)]
  /\ ledger' = [ledger EXCEPT ![DomainOf[url]] = 0]
  /\ UNCHANGED <<debounceVars, launch, inherited, restarts>>

\* handle_navigate_success; a new tab starts this way on AboutBlank.
CommitDocument(t, url) ==
  /\ tabs' = [tabs EXCEPT ![t] = NewTab(url, url)]
  /\ UNCHANGED <<debounceVars, launch, ledger, inherited, restarts>>

\* Mutation: the write in hand is not counted against the quota.
budget_off_by_one(p, count, bytes) ==
  count < STORAGE_RATE_LIMIT_WRITES_PER_SEC /\ ledger[p.origin_key] < p.quota_bytes

check_write_budget(p, count, bytes) ==
  /\ count < STORAGE_RATE_LIMIT_WRITES_PER_SEC
  /\ ledger[p.origin_key] + bytes <= p.quota_bytes

\* execute_capability_action of a StoreLocal.  Whether a second has passed
\* since the window began is the clock's choice; the count is reset even
\* when the quota then refuses the write.
StoreLocal(t, key, value) ==
  LET p == tabs[t].capability_policy
      bytes == estimate_value_bytes[value]
      Count(c) == tabs' = [tabs EXCEPT ![t].capability_policy.write_count_this_second = c]
  IN  /\ tabs[t].committed_url # AboutBlank
      /\ \E window_expired \in BOOLEAN :
           LET count == IF window_expired THEN 0 ELSE p.write_count_this_second
           IN  IF check_write_budget(p, count, bytes)
               THEN /\ Count(count + 1)
                    /\ ledger' = [ledger EXCEPT ![p.origin_key] = @ + bytes]
                    /\ submit(DomainOf[tabs[t].committed_url], key, value)
               ELSE /\ Count(count)
                    /\ UNCHANGED <<debounceVars, ledger>>
      /\ UNCHANGED <<launch, inherited, restarts>>

\* The process ends and the browser is started again, on the same document or
\* on another.
Restart ==
  /\ restarts < MaxRestarts /\ restarts' = restarts + 1
  /\ Crash
  /\ launch' \in StartURLs /\ tabs' = StartTabs(launch')
  /\ ledger' = [d \in Domains |-> 0]
  /\ inherited' = [d \in Domains |-> AtRest(d)]

Next ==
  \/ \E t \in Tabs, url \in Urls : CommitDocument(t, url)
  \/ \E t \in Tabs, k \in Keys, v \in Values : StoreLocal(t, k, v)
  \/ Worker /\ UNCHANGED <<launch, tabs, ledger, inherited, restarts>>
  \/ Restart

Spec == Init /\ [][Next]_vars

-----------------------------------------------------------------------------
(* Properties *)

\* S4: an origin is charged within its tier, whatever its tabs and
\* navigations do.  A domain may be reached by URLs of different tiers.
LedgerWithinQuota ==
  \A d \in Domains : ledger[d] > 0 => \E u \in Urls : DomainOf[u] = d /\ ledger[d] <= QuotaOf[u]

home == DomainOf[DefaultURL]

\* The store whose document may be charged under another name: the launch
\* document's, until its tab commits something.
ChargedElsewhere(d) == launch # AboutBlank /\ d = DomainOf[launch] /\ d # home

\* S4: every byte a store gained in this process was charged to the identity
\* that names the store; a store whose document the browser was launched on
\* shares its account with that of home, whose policy the first tab kept.
StoreCharged ==
  \A d \in Domains :
    IF ChargedElsewhere(d)
    THEN AtRest(d) + AtRest(home) <= inherited[d] + inherited[home] + ledger[d] + ledger[home]
    ELSE AtRest(d) <= inherited[d] + ledger[d]

=============================================================================
