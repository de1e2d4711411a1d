------------------------ MODULE ClusterRoleAggregation ------------------------
(***************************************************************************)
(* The controller that keeps the rules of an aggregated ClusterRole equal  *)
(* to the rules of the roles its selectors match (pkg/controllers/         *)
(* kubecontroller/clusterroleaggregation.go).  Workers read an informer's  *)
(* cache, which lags behind the store, and write back with server-side     *)
(* apply; every event queues every aggregated role.                        *)
(*                                                                         *)
(* The informer and the rate-limited work queue are libraries: a key that  *)
(* is added while a worker has it is handed out again once that worker is  *)
(* done.                                                                   *)
(***************************************************************************)
EXTENDS Naturals, FiniteSets, SequencesExt

CONSTANTS
  Roles,        \* names of cluster roles
  Names,        \* their names in order
  Selectors,    \* Selectors[r]: the labels r aggregates, one per selector
  Rules, Labels,
  InitialStore, \* the roles at the beginning
  InitialOwners,\* and who owns their rules
  Edits,        \* Edits[r]: what users turn role r into
  Workers,
  MaxEdits,     \* bound: edits by users
  MaxErrors,    \* bound: writes that fail
  MaxStops      \* bound: restarts of the controller

(* agg says that the role has an AggregationRule.  A role without rules,   *)
(* labels and AggregationRule is as good as none.                          *)
RoleObject == [agg : BOOLEAN, labels : SUBSET Labels, rules : Seq(Rules)]
Absent == [agg |-> FALSE, labels |-> {}, rules |-> <<>>]
Present(roles) == {r \in Roles : roles[r] # Absent}

(* Who may own the rules of a role, a list the API server treats as one    *)
(* field: this controller, under its FieldManager, and everybody else.     *)
Managers == {"controller", "users"}

ASSUME AggregationAssumption ==
  /\ Names \in Seq(Roles) /\ Range(Names) = Roles /\ IsInjective(Names)
  /\ Selectors \in [Roles -> Seq(Labels)]
  /\ InitialStore \in [Roles -> RoleObject]
  /\ InitialOwners \in [Roles -> SUBSET Managers]
  /\ \A r \in Roles : \A v \in Edits[r] : v \in RoleObject
  /\ Workers # {} /\ MaxEdits \in Nat /\ MaxErrors \in Nat /\ MaxStops \in Nat

VARIABLES
  store,    \* the cluster roles in etcd
  owners,   \* who owns the rules of each (managedFields)
  watch,    \* events on their way to the informer
  cache,    \* the informer's copy
  notify,   \* events the handlers have not seen yet
  dirty,    \* keys to be processed
  retry,    \* keys waiting in AddRateLimited
  worker,   \* what each worker is doing
  edits, errors, stops

vars ==
  <<store, owners, watch, cache, notify, dirty, retry, worker, edits, errors, stops>>

(* key is the role a worker has; at counts the reads of the cache it has   *)
(* done; shared is the role as the first read returned it.                 *)
Idle == [busy |-> FALSE]
WorkerBusy == [busy : {TRUE}, key : Roles, at : Nat, shared : RoleObject, rules : Seq(Rules)]
Busy(w) == worker[w].busy
Processing == {worker[w].key : w \in {x \in Workers : Busy(x)}}

Init ==
  /\ store = InitialStore /\ cache = InitialStore /\ owners = InitialOwners
  /\ watch = <<>> /\ notify = Cardinality(Present(InitialStore))
  /\ dirty = {} /\ retry = {}
  /\ worker = [w \in Workers |-> Idle]
  /\ edits = 0 /\ errors = 0 /\ stops = 0

(* The store takes value v for role r and tells the watchers.              *)
Write(r, v) ==
  /\ store' = [store EXCEPT ![r] = v]
  /\ watch' = IF v = store[r] THEN watch ELSE Append(watch, [role |-> r, value |-> v])
-------------------------------------------------------------------------------
(* Users, the informer and the queue.                                      *)

(* Who may own the rules of role r once users have made it v.  They own    *)
(* what they change; rules they leave alone they may claim too, or give    *)
(* up, which takes the rules away when nobody else owns them.              *)
OwnersAfterEdit(r, v) ==
  IF v = Absent THEN {{}}
  ELSE IF v.rules # store[r].rules THEN {{"users"}}
  ELSE {o \in SUBSET Managers : /\ o \ {"users"} = owners[r] \ {"users"}
                                /\ o = {} => owners[r] = {}}

(* A change of owners alone is left out: its event would queue the roles   *)
(* and nothing else.                                                       *)
Edit(r) ==
  /\ edits < MaxEdits /\ edits' = edits + 1
  /\ \E v \in Edits[r] \ {store[r]} :
       /\ Write(r, v)
       /\ \E o \in OwnersAfterEdit(r, v) : owners' = [owners EXCEPT ![r] = o]
  /\ UNCHANGED <<cache, notify, dirty, retry, worker, errors, stops>>

Deliver ==
  /\ watch # <<>>
  /\ cache' = [cache EXCEPT ![Head(watch).role] = Head(watch).value]
  /\ watch' = Tail(watch)
  /\ notify' = notify + 1
  /\ UNCHANGED <<store, owners, dirty, retry, worker, edits, errors, stops>>

(* Mutant of ToQueue: enqueue returns at the first role without an         *)
(* AggregationRule.                                                        *)
ToQueueUntilPlain ==
  {Names[i] : i \in {j \in DOMAIN Names : cache[Names[j]].agg /\
     \A k \in 1..j : cache[Names[k]] # Absent => cache[Names[k]].agg}}

ToQueue == {r \in Roles : cache[r].agg}

(* The handlers of NewClusterRoleAggregation all call enqueue.             *)
enqueue ==
  /\ notify > 0 /\ notify' = notify - 1
  /\ dirty' = dirty \cup ToQueue
  /\ UNCHANGED <<store, owners, watch, cache, retry, worker, edits, errors, stops>>

RetryDue(k) ==
  /\ k \in retry
  /\ retry' = retry \ {k} /\ dirty' = dirty \cup {k}
  /\ UNCHANGED <<store, owners, watch, cache, notify, worker, edits, errors, stops>>
-------------------------------------------------------------------------------
(* syncClusterRole.                                                        *)

(* Mutant of Matching: the role itself is not left out.                    *)
MatchingItself(roles, key, label) == {r \in Present(roles) : label \in roles[r].labels}

Matching(roles, key, label) ==
  {r \in Present(roles) : label \in roles[r].labels /\ r # key}

(* Mutant of AddRule: ruleExists is not asked.                             *)
AddRuleAgain(rules, rule) == Append(rules, rule)

(* A rule is added once (ruleExists).                                      *)
AddRule(rules, rule) == IF rule \in ToSet(rules) THEN rules ELSE Append(rules, rule)

(* The loop over the rules of one role.                                    *)
AddRules(rules, more) ==
  LET added[n \in 0..Len(more)] == IF n = 0 THEN rules ELSE AddRule(added[n - 1], more[n])
  IN  added[Len(more)]

(* What a role adds, if one List returns it.                               *)
AddRole(rules, roles, key, label, r) ==
  IF r \in Matching(roles, key, label) THEN AddRules(rules, roles[r].rules) ELSE rules

(* The loop over what one List returned, sorted by name.                   *)
AddMatching(rules, roles, key, label) ==
  LET added[n \in 0..Len(Names)] ==
        IF n = 0 THEN rules ELSE AddRole(added[n - 1], roles, key, label, Names[n])
  IN  added[Len(Names)]

(* The loop over the selectors, when the roles stand still: the rules      *)
(* after each of them, and at the end.                                     *)
Aggregating(roles, key) ==
  LET added[n \in 0..Len(Selectors[key])] ==
        IF n = 0 THEN <<>>
        ELSE AddMatching(added[n - 1], roles, key, Selectors[key][n])
  IN  added
Aggregate(roles, key) == Aggregating(roles, key)[Len(Selectors[key])]

(* Mutant of GetKey: queue.Done comes before the sync.                     *)
GetKeyDoneEarly(w) ==
  /\ ~Busy(w)
  /\ \E k \in dirty :
       /\ dirty' = dirty \ {k}
       /\ worker' = [worker EXCEPT ![w] =
            [busy |-> TRUE, key |-> k, at |-> 0, shared |-> Absent, rules |-> <<>>]]
  /\ UNCHANGED <<store, owners, watch, cache, notify, retry, edits, errors, stops>>

(* processNextWorkItem takes a key, syncClusterRole gets the role.         *)
GetKey(w) ==
  /\ ~Busy(w)
  /\ \E k \in dirty \ Processing :
       /\ dirty' = dirty \ {k}
       /\ worker' = [worker EXCEPT ![w] =
            [busy |-> TRUE, key |-> k, at |-> 0, shared |-> Absent, rules |-> <<>>]]
  /\ UNCHANGED <<store, owners, watch, cache, notify, retry, edits, errors, stops>>

(* A role that is gone or aggregates nothing is done.                      *)
GetRole(w) ==
  /\ Busy(w) /\ worker[w].at = 0
  /\ LET role == cache[worker[w].key] IN
     worker' = [worker EXCEPT ![w] =
                  IF role.agg THEN [@ EXCEPT !.at = 1, !.shared = role] ELSE Idle]
  /\ UNCHANGED <<store, owners, watch, cache, notify, dirty, retry, edits, errors, stops>>

ListSelector(w) ==
  /\ Busy(w) /\ worker[w].at \in 1..Len(Selectors[worker[w].key])
  /\ LET key == worker[w].key IN
     worker' = [worker EXCEPT ![w].at = @ + 1,
                 ![w].rules = AddMatching(@, cache, key, Selectors[key][worker[w].at])]
  /\ UNCHANGED <<store, owners, watch, cache, notify, dirty, retry, edits, errors, stops>>

Computed(w) == Busy(w) /\ worker[w].at > Len(Selectors[worker[w].key])

(* Server-side apply sets the rules and nothing else; it creates a role    *)
(* that is not there.  A configuration without rules has no such field: it *)
(* gives up the controller's own claim, and the rules go only if nobody    *)
(* else owns them.                                                         *)
Applied(w) ==
  LET key == worker[w].key
  IN  IF worker[w].rules = <<>> /\ "users" \in owners[key] THEN store[key]
      ELSE [store[key] EXCEPT !.rules = worker[w].rules]

(* Force takes rules that change from their owners; rules that are already *)
(* there are shared with them.                                             *)
OwnersAfterApply(w) ==
  LET key == worker[w].key
  IN  IF worker[w].rules = <<>> THEN owners[key] \ {"controller"}
      ELSE IF worker[w].rules = store[key].rules THEN owners[key] \cup {"controller"}
      ELSE {"controller"}

Apply(w) ==
  /\ Write(worker[w].key, Applied(w))
  /\ owners' = [owners EXCEPT ![worker[w].key] = OwnersAfterApply(w)]

(* Mutant of Requeued: the key is forgotten after an error too.            *)
RequeuedNever(k) == retry

(* AddRateLimited.                                                         *)
Requeued(k) == retry \cup {k}

(* DeepEqual against the role read first, then applyClusterRoles.          *)
ApplyClusterRoles(w) ==
  /\ Computed(w)
  /\ \/ /\ worker[w].rules = worker[w].shared.rules
        /\ UNCHANGED <<store, owners, watch, retry, errors>>
     \/ /\ worker[w].rules # worker[w].shared.rules
        /\ \/ Apply(w) /\ UNCHANGED <<retry, errors>>
           \/ /\ errors < MaxErrors /\ errors' = errors + 1
              /\ retry' = Requeued(worker[w].key)
              /\ UNCHANGED <<store, owners, watch>> \/ Apply(w)
  /\ worker' = [worker EXCEPT ![w] = Idle]
  /\ UNCHANGED <<cache, notify, dirty, edits, stops>>

(* The process restarts: Run waits for the cache to fill, the handlers see *)
(* every role as added, and the queue starts empty.                        *)
Restart ==
  /\ stops < MaxStops /\ stops' = stops + 1
  /\ cache' = store /\ watch' = <<>> /\ notify' = Cardinality(Present(store))
  /\ dirty' = {} /\ retry' = {}
  /\ worker' = [w \in Workers |-> Idle]
  /\ UNCHANGED <<store, owners, edits, errors>>

Work(w) == GetKey(w) \/ GetRole(w) \/ ListSelector(w) \/ ApplyClusterRoles(w)

Next ==
  \/ \E r \in Roles : Edit(r) \/ RetryDue(r)
  \/ Deliver \/ enqueue \/ Restart
  \/ \E w \in Workers : Work(w)

Spec == Init /\ [][Next]_vars

(* The informer and the workers run; users do not have to do anything.     *)
FairSpec ==
  /\ Spec
  /\ WF_vars(Deliver) /\ WF_vars(enqueue)
  /\ \A k \in Roles : WF_vars(RetryDue(k))
  /\ \A w \in Workers : WF_vars(Work(w))
-------------------------------------------------------------------------------
(* The values of the variables; a key is with one worker at a time.        *)
TypeOK ==
  /\ store \in [Roles -> RoleObject] /\ cache \in [Roles -> RoleObject]
  /\ owners \in [Roles -> SUBSET Managers]
  /\ watch \in Seq([role : Roles, value : RoleObject])
  /\ notify \in Nat /\ dirty \subseteq Roles /\ retry \subseteq Roles
  /\ worker \in [Workers -> {Idle} \cup WorkerBusy]
  /\ \A v, w \in Workers : Busy(v) /\ Busy(w) /\ worker[v].key = worker[w].key => v = w
  /\ edits \in Nat /\ errors \in Nat /\ stops \in Nat

Quiet ==
  watch = <<>> /\ notify = 0 /\ dirty = {} /\ retry = {} /\ Processing = {}

(* When the controller has nothing left to do, every aggregated role has   *)
(* exactly the rules of the roles it selects, in their order: no event,    *)
(* stale read, failed write or restart made it miss a change.  Only where  *)
(* these are none, and somebody else owns the role's rules, do its rules   *)
(* stay what they are.                                                     *)
QuietMeansAggregated ==
  Quiet => \A r \in Roles : store[r].agg =>
    \/ store[r].rules = Aggregate(store, r)
    \/ Aggregate(store, r) = <<>> /\ "users" \in owners[r]

Selected(roles, r) ==
  {x \in Present(roles) : x # r /\ ToSet(Selectors[r]) \cap roles[x].labels # {}}
RulesBelow(roles, r) == UNION {ToSet(roles[x].rules) : x \in Selected(roles, r)}

(* An aggregated role whose rules the controller leaves to their owner,    *)
(* because the roles it selects have none.                                 *)
Kept(r) == RulesBelow(store, r) = {} /\ "users" \in owners[r]

(* It then grants what the roles that some selector of it matches grant,   *)
(* each rule once, whatever the order of names, selectors and rules that   *)
(* syncClusterRole went through, unless its rules are left to their owner. *)
QuietMeansUnion ==
  Quiet => \A r \in Roles : store[r].agg =>
    \/ ToSet(store[r].rules) = RulesBelow(store, r) /\ IsInjective(store[r].rules)
    \/ Kept(r)

(* The roles whose rules come from those they select.                      *)
Filled == {r \in Roles : store[r].agg /\ ~Kept(r)}

(* What each role grants when the filled ones among what it selects grant  *)
(* what below says.                                                        *)
GrantsOver(filled, roles, below) ==
  [x \in Roles |-> IF x \notin filled THEN ToSet(roles[x].rules)
                   ELSE UNION {below[y] : y \in Selected(roles, x)}]

(* The rules of the roles at the bottom that role r aggregates, directly   *)
(* or through other filled roles.                                          *)
Grants(filled, roles) ==
  LET grants[depth \in 0..Cardinality(Roles)] ==
        IF depth = 0 THEN [x \in Roles |-> {}]
        ELSE GrantsOver(filled, roles, grants[depth - 1])
  IN  grants
Granted(filled, roles) == Grants(filled, roles)[Cardinality(Roles)]

(* The filled roles grant what the roles at the bottom grant, no more.      *)
GrantedFromBelow ==
  LET filled == Filled
      granted == Granted(filled, store)
  IN  \A r \in filled : ToSet(store[r].rules) = granted[r]

(* No role aggregates itself through others.                               *)
Acyclic(roles) ==
  \E rank \in [Roles -> 1..Cardinality(Roles)] :
    \A r \in Roles : roles[r].agg => \A x \in Selected(roles, r) : rank[x] < rank[r]

(* When the controller has nothing left to do, an aggregated role grants   *)
(* what the roles at the bottom grant and nothing else, through every      *)
(* chain of aggregated roles: a rule that was taken back at the bottom     *)
(* survives nowhere, unless roles aggregate each other.  At the bottom are *)
(* the plain roles, and the aggregated ones whose rules are left to their  *)
(* owner.                                                                  *)
QuietMeansGranted == Quiet /\ Acyclic(store) => GrantedFromBelow

(* After the last edit, through a chain of aggregated roles and with       *)
(* writes that failed, every aggregated role comes to grant what the roles *)
(* at the bottom grant and nothing else: a rule that was taken back does   *)
(* not survive in a role that got it from a stale read, unless users own   *)
(* the role's rules and nothing is left to replace them.                   *)
EventuallyGranted == <>[]GrantedFromBelow
===============================================================================
