-------------------- MODULE ClusterRoleAggregation_proofs ---------------------
(***************************************************************************)
(* Proofs about ClusterRoleAggregation: what the three loops of            *)
(* syncClusterRole compute, and that the controller comes to rest only     *)
(* when every aggregated role has those rules; for any roles, selectors,   *)
(* workers, edits, failed writes and restarts.                             *)
(***************************************************************************)
EXTENDS ClusterRoleAggregation, FiniteSetTheorems, SequenceTheorems,
        WellFoundedInduction, TLAPS

-------------------------------------------------------------------------------
(* Induction on a bounded index, as a statement about sets.                *)

(* A set of naturals has a least element.                                  *)
LEMMA LeastNat ==
  ASSUME NEW T \in SUBSET Nat, T # {}
  PROVE  \E m \in T : \A k \in T : m <= k
<1> DEFINE R == {ss \in Nat \X Nat : ss[1] < ss[2]}
<1>1. IsWellFoundedOn(R, Nat)
  BY NatLessThanWellFounded, Zenon DEF OpToRel
<1>2. PICK m \in T : \A k \in T : ~(<<k, m>> \in R)
  <2> HIDE DEF R
  <2> QED BY <1>1, WFMin
<1>3. ASSUME NEW k \in T PROVE m <= k
  <2>1. ~(<<k, m>> \in R)
    BY <1>2
  <2> QED BY <2>1
<1> QED BY <1>3

(* A set that holds 0 and with each index below N the next one holds all.  *)
LEMMA BoundedInduction ==
  ASSUME NEW N \in Nat, NEW A, 0 \in A, \A n \in 1..N : n - 1 \in A => n \in A
  PROVE  \A n \in 0..N : n \in A
<1> DEFINE Bad == {n \in 0..N : n \notin A}
<1>1. ASSUME Bad # {} PROVE FALSE
  <2>1. PICK m \in Bad : \A k \in Bad : m <= k
    <3> Bad \in SUBSET Nat
      OBVIOUS
    <3> HIDE DEF Bad
    <3> QED BY <1>1, LeastNat
  <2>2. m \in 1..N /\ m - 1 \in 0..N
    OBVIOUS
  <2>3. m - 1 \in A
    BY <2>1, <2>2
  <2> QED BY <2>2, <2>3
<1> QED BY <1>1

(* g has the values of a loop of N rounds over S, whose n-th is step[n].   *)
Loop(S, N, b, step, g) ==
  g \in [0..N -> S] /\ g[0] = b /\ \A n \in 1..N : g[n] = step[n][g[n - 1]]

(* Every loop has its values.                                              *)
LEMMA LoopExists ==
  ASSUME NEW S, NEW N \in Nat, NEW b \in S, NEW step \in [1..N -> [S -> S]]
  PROVE  \E g : Loop(S, N, b, step, g)
<1> DEFINE Run(n, g) == g[0] = b /\ \A i \in 1..n : g[i] = step[i][g[i - 1]]
           A == {n \in 0..N : \E g \in [0..n -> S] : Run(n, g)}
<1>1. 0 \in A
  <2> DEFINE g == [i \in 0..0 |-> b]
  <2>1. g \in [0..0 -> S] /\ Run(0, g)
    OBVIOUS
  <2> HIDE DEF g, Run
  <2>2. \E f \in [0..0 -> S] : Run(0, f)
    BY <2>1
  <2> QED BY <2>2
<1>2. ASSUME NEW n \in 1..N, n - 1 \in A PROVE n \in A
  <2>1. PICK g \in [0..(n - 1) -> S] : Run(n - 1, g)
    BY <1>2
  <2> DEFINE h == [i \in 0..n |-> IF i = n THEN step[n][g[n - 1]] ELSE g[i]]
  <2>2. step[n][g[n - 1]] \in S
    OBVIOUS
  <2>3. h \in [0..n -> S]
    BY <2>2
  <2>4. Run(n, h)
    <3>1. h[0] = b
      BY <2>1
    <3>2. ASSUME NEW i \in 1..n PROVE h[i] = step[i][h[i - 1]]
      <4>1. CASE i = n
        BY <4>1
      <4>2. CASE i # n
        BY <2>1, <4>2
      <4> QED BY <4>1, <4>2
    <3> QED BY <3>1, <3>2
  <2> HIDE DEF h, Run
  <2>5. \E f \in [0..n -> S] : Run(n, f)
    BY <2>3, <2>4
  <2> QED BY <2>5
<1>3. N \in A
  <2>1. N \in 0..N
    OBVIOUS
  <2> HIDE DEF A
  <2> QED BY <1>1, <1>2, <2>1, BoundedInduction
<1> QED BY <1>3 DEF Loop
-------------------------------------------------------------------------------
(* The three loops of syncClusterRole.                                     *)

(* Adding a rule gives a list of rules.                                    *)
LEMMA AddRuleType ==
  ASSUME NEW rules \in Seq(Rules), NEW rule \in Rules
  PROVE  AddRule(rules, rule) \in Seq(Rules)
BY DEF AddRule

(* The loop over the rules of a role is one rule per round.                *)
LEMMA AddRulesLoop ==
  ASSUME NEW rules \in Seq(Rules), NEW more \in Seq(Rules)
  PROVE  \E f \in [0..Len(more) -> Seq(Rules)] :
           /\ f[0] = rules /\ AddRules(rules, more) = f[Len(more)]
           /\ \A n \in 1..Len(more) : f[n] = AddRule(f[n - 1], more[n])
<1> DEFINE N == Len(more)
           body(g) == [n \in 0..N |-> IF n = 0 THEN rules ELSE AddRule(g[n - 1], more[n])]
           step == [n \in 1..N |-> [s \in Seq(Rules) |-> AddRule(s, more[n])]]
<1>1. N \in Nat /\ rules \in Seq(Rules)
  OBVIOUS
<1>2. \A n \in 1..N : \A s \in Seq(Rules) : AddRule(s, more[n]) \in Seq(Rules)
  BY AddRuleType
<1> HIDE DEF N
<1>3. step \in [1..N -> [Seq(Rules) -> Seq(Rules)]]
  BY <1>2
<1>4. PICK g \in [0..N -> Seq(Rules)] :
        g[0] = rules /\ \A n \in 1..N : g[n] = step[n][g[n - 1]]
  <2> DEFINE S == Seq(Rules)
  <2>1. step \in [1..N -> [S -> S]]
    BY <1>3
  <2> HIDE DEF step, S
  <2>2. \E h : Loop(S, N, rules, step, h)
    <3>1. N \in Nat /\ rules \in S
      BY <1>1 DEF S
    <3> QED BY <2>1, <3>1, LoopExists
  <2> QED BY <2>2 DEF S, Loop
<1>5. \A n \in 1..N : g[n] = AddRule(g[n - 1], more[n])
  <2> TAKE n \in 1..N
  <2>1. g[n - 1] \in Seq(Rules)
    BY <1>1
  <2> QED BY <1>4, <2>1
<1>6. g = body(g)
  BY <1>1, <1>4, <1>5
<1> DEFINE f == CHOOSE h : h = body(h)
<1>7. f = body(f)
  <2> HIDE DEF body
  <2> QED BY <1>6
<1>8. AddRules(rules, more) = f[N]
  BY Zenon DEF AddRules, N
<1> HIDE DEF f
<1>9. f[0] = rules
  BY <1>1, <1>7
<1>10. \A n \in 1..N : f[n] = AddRule(f[n - 1], more[n])
  BY <1>1, <1>7
<1>11. \A n \in 0..N : f[n] \in Seq(Rules)
  <2> DEFINE A == {n \in 0..N : f[n] \in Seq(Rules)}
  <2>1. 0 \in A
    <3>1. 0 \in 0..N
      BY <1>1
    <3> QED BY <1>1, <1>9, <3>1
  <2>2. ASSUME NEW n \in 1..N, n - 1 \in A PROVE n \in A
    <3>1. f[n - 1] \in Seq(Rules) /\ n \in 0..N
      BY <1>1, <2>2
    <3>2. f[n] \in Seq(Rules)
      BY <1>2, <1>10, <3>1
    <3> QED BY <3>1, <3>2
  <2>3. \A n \in 0..N : n \in A
    <3> HIDE DEF A
    <3> QED BY <1>1, <2>1, <2>2, BoundedInduction
  <2> QED BY <2>3
<1>12. f \in [0..N -> Seq(Rules)]
  BY <1>7, <1>11
<1> QED BY <1>8, <1>9, <1>10, <1>12 DEF N

(* The rules of a role added to a list of rules.                           *)
LEMMA AddRoleType ==
  ASSUME NEW roles \in [Roles -> RoleObject], NEW key \in Roles, NEW label,
         NEW rules \in Seq(Rules), NEW r \in Roles
  PROVE  AddRole(rules, roles, key, label, r) \in Seq(Rules)
<1>1. roles[r].rules \in Seq(Rules)
  BY DEF RoleObject
<1>2. AddRules(rules, roles[r].rules) \in Seq(Rules)
  <2>1. Len(roles[r].rules) \in Nat
    BY <1>1
  <2>2. PICK f \in [0..Len(roles[r].rules) -> Seq(Rules)] :
          AddRules(rules, roles[r].rules) = f[Len(roles[r].rules)]
    BY <1>1, AddRulesLoop, Zenon
  <2> QED BY <2>1, <2>2
<1> QED BY <1>2 DEF AddRole

(* The values of the loop over the roles of a List.                        *)
ListLoop(rules, roles, key, label, f) ==
  /\ f \in [0..Len(Names) -> Seq(Rules)]
  /\ f[0] = rules /\ AddMatching(rules, roles, key, label) = f[Len(Names)]
  /\ \A n \in 1..Len(Names) : f[n] = AddRole(f[n - 1], roles, key, label, Names[n])

(* The loop over the roles of a List is one name per round.                *)
LEMMA AddMatchingLoop ==
  ASSUME NEW roles \in [Roles -> RoleObject], NEW key \in Roles, NEW label,
         NEW rules \in Seq(Rules)
  PROVE  \E f : ListLoop(rules, roles, key, label, f)
<1> DEFINE N == Len(Names)
           body(g) == [n \in 0..N |-> IF n = 0 THEN rules ELSE AddRole(g[n - 1], roles, key, label, Names[n])]
           step == [n \in 1..N |-> [s \in Seq(Rules) |-> AddRole(s, roles, key, label, Names[n])]]
<1>1. N \in Nat /\ rules \in Seq(Rules)
  BY AggregationAssumption
<1>2. \A n \in 1..N : \A s \in Seq(Rules) : AddRole(s, roles, key, label, Names[n]) \in Seq(Rules)
  <2>1. \A n \in 1..N : Names[n] \in Roles
    BY AggregationAssumption
  <2> QED BY <2>1, AddRoleType
<1> HIDE DEF N
<1>3. step \in [1..N -> [Seq(Rules) -> Seq(Rules)]]
  BY <1>2
<1>4. PICK g \in [0..N -> Seq(Rules)] :
        g[0] = rules /\ \A n \in 1..N : g[n] = step[n][g[n - 1]]
  <2> DEFINE S == Seq(Rules)
  <2>1. step \in [1..N -> [S -> S]]
    BY <1>3
  <2> HIDE DEF step, S
  <2>2. \E h : Loop(S, N, rules, step, h)
    <3>1. N \in Nat /\ rules \in S
      BY <1>1 DEF S
    <3> QED BY <2>1, <3>1, LoopExists
  <2> QED BY <2>2 DEF S, Loop
<1>5. \A n \in 1..N : g[n] = AddRole(g[n - 1], roles, key, label, Names[n])
  <2> TAKE n \in 1..N
  <2>1. g[n - 1] \in Seq(Rules)
    BY <1>1
  <2> QED BY <1>4, <2>1
<1>6. g = body(g)
  BY <1>1, <1>4, <1>5
<1> DEFINE f == CHOOSE h : h = body(h)
<1>7. f = body(f)
  <2> HIDE DEF body
  <2> QED BY <1>6
<1>8. AddMatching(rules, roles, key, label) = f[N]
  BY Zenon DEF AddMatching, N
<1> HIDE DEF f
<1>9. f[0] = rules
  BY <1>1, <1>7
<1>10. \A n \in 1..N : f[n] = AddRole(f[n - 1], roles, key, label, Names[n])
  BY <1>1, <1>7
<1>11. \A n \in 0..N : f[n] \in Seq(Rules)
  <2> DEFINE A == {n \in 0..N : f[n] \in Seq(Rules)}
  <2>1. 0 \in A
    <3>1. 0 \in 0..N
      BY <1>1
    <3> QED BY <1>1, <1>9, <3>1
  <2>2. ASSUME NEW n \in 1..N, n - 1 \in A PROVE n \in A
    <3>1. f[n - 1] \in Seq(Rules) /\ n \in 0..N
      BY <1>1, <2>2
    <3>2. f[n] \in Seq(Rules)
      BY <1>2, <1>10, <3>1
    <3> QED BY <3>1, <3>2
  <2>3. \A n \in 0..N : n \in A
    <3> HIDE DEF A
    <3> QED BY <1>1, <2>1, <2>2, BoundedInduction
  <2> QED BY <2>3
<1>12. f \in [0..N -> Seq(Rules)]
  BY <1>7, <1>11
<1>13. ListLoop(rules, roles, key, label, f)
  BY <1>8, <1>9, <1>10, <1>12 DEF N, ListLoop
<1> QED BY <1>13

(* The rules of one List added to a list of rules.                         *)
LEMMA AddMatchingType ==
  ASSUME NEW roles \in [Roles -> RoleObject], NEW key \in Roles, NEW label,
         NEW rules \in Seq(Rules)
  PROVE  AddMatching(rules, roles, key, label) \in Seq(Rules)
<1>1. Len(Names) \in Nat
  BY AggregationAssumption
<1>2. PICK f : ListLoop(rules, roles, key, label, f)
  BY AddMatchingLoop
<1> QED BY <1>1, <1>2 DEF ListLoop

(* The loop over the selectors is one List per round.                      *)
LEMMA AggregatingLoop ==
  ASSUME NEW roles \in [Roles -> RoleObject], NEW key \in Roles
  PROVE  \E f \in [0..Len(Selectors[key]) -> Seq(Rules)] :
           /\ f[0] = <<>> /\ Aggregating(roles, key) = f
           /\ \A n \in 1..Len(Selectors[key]) : f[n] = AddMatching(f[n - 1], roles, key, Selectors[key][n])
<1> DEFINE N == Len(Selectors[key])
           body(g) == [n \in 0..N |-> IF n = 0 THEN <<>> ELSE AddMatching(g[n - 1], roles, key, Selectors[key][n])]
           step == [n \in 1..N |-> [s \in Seq(Rules) |-> AddMatching(s, roles, key, Selectors[key][n])]]
<1>1. N \in Nat /\ <<>> \in Seq(Rules)
  BY AggregationAssumption
<1>2. \A n \in 1..N : \A s \in Seq(Rules) : AddMatching(s, roles, key, Selectors[key][n]) \in Seq(Rules)
  BY AddMatchingType
<1> HIDE DEF N
<1>3. step \in [1..N -> [Seq(Rules) -> Seq(Rules)]]
  BY <1>2
<1>4. PICK g \in [0..N -> Seq(Rules)] :
        g[0] = <<>> /\ \A n \in 1..N : g[n] = step[n][g[n - 1]]
  <2> DEFINE S == Seq(Rules)
  <2>1. step \in [1..N -> [S -> S]]
    BY <1>3
  <2> HIDE DEF step, S
  <2>2. \E h : Loop(S, N, <<>>, step, h)
    <3>1. N \in Nat /\ <<>> \in S
      BY <1>1 DEF S
    <3> QED BY <2>1, <3>1, LoopExists
  <2> QED BY <2>2 DEF S, Loop
<1>5. \A n \in 1..N : g[n] = AddMatching(g[n - 1], roles, key, Selectors[key][n])
  <2> TAKE n \in 1..N
  <2>1. g[n - 1] \in Seq(Rules)
    BY <1>1
  <2> QED BY <1>4, <2>1
<1>6. g = body(g)
  BY <1>1, <1>4, <1>5
<1> DEFINE f == CHOOSE h : h = body(h)
<1>7. f = body(f)
  <2> HIDE DEF body
  <2> QED BY <1>6
<1>8. Aggregating(roles, key) = f
  BY Zenon DEF Aggregating, N
<1> HIDE DEF f
<1>9. f[0] = <<>>
  BY <1>1, <1>7
<1>10. \A n \in 1..N : f[n] = AddMatching(f[n - 1], roles, key, Selectors[key][n])
  BY <1>1, <1>7
<1>11. \A n \in 0..N : f[n] \in Seq(Rules)
  <2> DEFINE A == {n \in 0..N : f[n] \in Seq(Rules)}
  <2>1. 0 \in A
    <3>1. 0 \in 0..N
      BY <1>1
    <3> QED BY <1>1, <1>9, <3>1
  <2>2. ASSUME NEW n \in 1..N, n - 1 \in A PROVE n \in A
    <3>1. f[n - 1] \in Seq(Rules) /\ n \in 0..N
      BY <1>1, <2>2
    <3>2. f[n] \in Seq(Rules)
      BY <1>2, <1>10, <3>1
    <3> QED BY <3>1, <3>2
  <2>3. \A n \in 0..N : n \in A
    <3> HIDE DEF A
    <3> QED BY <1>1, <2>1, <2>2, BoundedInduction
  <2> QED BY <2>3
<1>12. f \in [0..N -> Seq(Rules)]
  BY <1>7, <1>11
<1> QED BY <1>8, <1>9, <1>10, <1>12 DEF N

(* What a list of rules holds, and that it holds nothing twice.            *)
LEMMA AddRuleContent ==
  ASSUME NEW rules \in Seq(Rules), NEW rule \in Rules
  PROVE  /\ ToSet(AddRule(rules, rule)) = ToSet(rules) \cup {rule}
         /\ IsInjective(rules) => IsInjective(AddRule(rules, rule))
<1>1. CASE rule \in ToSet(rules)
  BY <1>1 DEF AddRule
<1>2. CASE rule \notin ToSet(rules)
  <2> DEFINE new == Append(rules, rule)
  <2>1. /\ DOMAIN rules = 1..Len(rules) /\ DOMAIN new = 1..(Len(rules) + 1)
        /\ new[Len(rules) + 1] = rule /\ Len(rules) \in Nat
        /\ \A i \in 1..Len(rules) : new[i] = rules[i]
    OBVIOUS
  <2>2. AddRule(rules, rule) = new
    BY <1>2 DEF AddRule
  <2> HIDE DEF new
  <2>3. ToSet(new) = ToSet(rules) \cup {rule}
    <3>1. \A i \in 1..(Len(rules) + 1) : i \in 1..Len(rules) \/ i = Len(rules) + 1
      BY <2>1
    <3>2. \A i \in 1..Len(rules) : i \in 1..(Len(rules) + 1)
      BY <2>1
    <3>3. Len(rules) + 1 \in 1..(Len(rules) + 1)
      BY <2>1
    <3> QED BY <2>1, <3>1, <3>2, <3>3 DEF ToSet
  <2>4. IsInjective(rules) => IsInjective(new)
    <3> SUFFICES ASSUME IsInjective(rules), NEW i \in DOMAIN new, NEW j \in DOMAIN new,
                        new[i] = new[j]
                 PROVE  i = j
      BY DEF IsInjective
    <3>1. CASE i \in 1..Len(rules) /\ j \in 1..Len(rules)
      BY <2>1, <3>1 DEF IsInjective
    <3>2. CASE i = Len(rules) + 1 /\ j \in 1..Len(rules)
      BY <1>2, <2>1, <3>2 DEF ToSet
    <3>3. CASE j = Len(rules) + 1 /\ i \in 1..Len(rules)
      BY <1>2, <2>1, <3>3 DEF ToSet
    <3> QED BY <2>1, <3>1, <3>2, <3>3
  <2> QED BY <2>2, <2>3, <2>4
<1> QED BY <1>1, <1>2

(* The rules of a role are added, and nothing else.                        *)
LEMMA AddRulesContent ==
  ASSUME NEW rules \in Seq(Rules), NEW more \in Seq(Rules)
  PROVE  /\ ToSet(AddRules(rules, more)) = ToSet(rules) \cup ToSet(more)
         /\ IsInjective(rules) => IsInjective(AddRules(rules, more))
<1>1. PICK f \in [0..Len(more) -> Seq(Rules)] :
        /\ f[0] = rules /\ AddRules(rules, more) = f[Len(more)]
        /\ \A n \in 1..Len(more) : f[n] = AddRule(f[n - 1], more[n])
  BY AddRulesLoop, Zenon
<1> DEFINE N == Len(more)
           First(n) == {more[i] : i \in 1..n}
           A == {n \in 0..N : /\ ToSet(f[n]) = ToSet(rules) \cup First(n)
                              /\ IsInjective(rules) => IsInjective(f[n])}
<1>2. N \in Nat /\ (\A n \in 1..N : more[n] \in Rules) /\ ToSet(more) = First(N)
  BY DEF ToSet
<1> HIDE DEF N
<1>3. 0 \in A
  BY <1>1, <1>2
<1>4. ASSUME NEW n \in 1..N, n - 1 \in A PROVE n \in A
  <2>1. f[n - 1] \in Seq(Rules) /\ more[n] \in Rules /\ n \in 0..N
    BY <1>2 DEF N
  <2>2. f[n] = AddRule(f[n - 1], more[n])
    BY <1>1 DEF N
  <2>3. /\ ToSet(f[n]) = ToSet(f[n - 1]) \cup {more[n]}
        /\ IsInjective(f[n - 1]) => IsInjective(f[n])
    BY <2>1, <2>2, AddRuleContent
  <2>4. First(n) = First(n - 1) \cup {more[n]}
    <3>1. \A i \in 1..n : i \in 1..(n - 1) \/ i = n
      BY <1>2
    <3>2. \A i \in 1..(n - 1) : i \in 1..n
      BY <1>2
    <3>3. n \in 1..n
      BY <1>2
    <3> QED BY <3>1, <3>2, <3>3
  <2> QED BY <1>4, <2>1, <2>3, <2>4
<1>5. N \in A
  <2>1. N \in 0..N
    BY <1>2
  <2> HIDE DEF A
  <2> QED BY <1>2, <1>3, <1>4, <2>1, BoundedInduction
<1> QED BY <1>1, <1>2, <1>5 DEF N

(* What one List contributes to the rules.                                 *)
ListedRules(roles, key, label) ==
  UNION {ToSet(roles[r].rules) : r \in Matching(roles, key, label)}

(* The names are those of the roles, from the first to the last.           *)
LEMMA NamesCover ==
  /\ Len(Names) \in Nat /\ \A n \in 1..Len(Names) : Names[n] \in Roles
  /\ \A r \in Roles : \E n \in 1..Len(Names) : Names[n] = r
<1>1. Names \in Seq(Roles) /\ Range(Names) = Roles
  BY AggregationAssumption DEF AggregationAssumption
<1> QED BY <1>1 DEF Range

(* The rules of the roles that a List returns are added, and nothing else. *)
LEMMA AddMatchingContent ==
  ASSUME NEW roles \in [Roles -> RoleObject], NEW key \in Roles, NEW label,
         NEW rules \in Seq(Rules)
  PROVE  /\ ToSet(AddMatching(rules, roles, key, label))
              = ToSet(rules) \cup ListedRules(roles, key, label)
         /\ IsInjective(rules) => IsInjective(AddMatching(rules, roles, key, label))
<1>1. PICK f : ListLoop(rules, roles, key, label, f)
  BY AddMatchingLoop
<1> DEFINE N == Len(Names)
           M == Matching(roles, key, label)
           First(n) == UNION {ToSet(roles[r].rules) : r \in {x \in M : \E i \in 1..n : Names[i] = x}}
<1> DEFINE A == {n \in 0..N : /\ ToSet(f[n]) = ToSet(rules) \cup First(n)
                              /\ IsInjective(rules) => IsInjective(f[n])}
<1>2. /\ f \in [0..N -> Seq(Rules)]
      /\ f[0] = rules /\ AddMatching(rules, roles, key, label) = f[N]
      /\ \A n \in 1..N : f[n] = AddRole(f[n - 1], roles, key, label, Names[n])
  BY <1>1 DEF ListLoop
<1>3. N \in Nat /\ (\A n \in 1..N : Names[n] \in Roles)
  BY NamesCover
<1>4. First(N) = ListedRules(roles, key, label)
  <2>1. M \subseteq Roles
    BY DEF Matching, Present
  <2>2. {x \in M : \E i \in 1..N : Names[i] = x} = M
    BY <2>1, NamesCover
  <2> QED BY <2>2 DEF ListedRules
<1> HIDE DEF N
<1>5. 0 \in A
  <2>1. First(0) = {}
    OBVIOUS
  <2> HIDE DEF First
  <2> QED BY <1>2, <1>3, <2>1
<1>6. ASSUME NEW n \in 1..N, n - 1 \in A PROVE n \in A
  <2>1. f[n - 1] \in Seq(Rules) /\ Names[n] \in Roles /\ n \in 0..N
    BY <1>2, <1>3
  <2>2. roles[Names[n]].rules \in Seq(Rules)
    BY <2>1 DEF RoleObject
  <2>3. f[n] = IF Names[n] \in M THEN AddRules(f[n - 1], roles[Names[n]].rules) ELSE f[n - 1]
    BY <1>2 DEF AddRole
  <2> DEFINE here == IF Names[n] \in M THEN ToSet(roles[Names[n]].rules) ELSE {}
  <2>4. /\ ToSet(f[n]) = ToSet(f[n - 1]) \cup here
        /\ IsInjective(f[n - 1]) => IsInjective(f[n])
    BY <2>1, <2>2, <2>3, AddRulesContent
  <2>5. First(n) = First(n - 1) \cup here
    <3>1. \A i \in 1..n : i \in 1..(n - 1) \/ i = n
      BY <1>3
    <3>2. (\A i \in 1..(n - 1) : i \in 1..n) /\ n \in 1..n
      BY <1>3
    <3> QED BY <3>1, <3>2, Zenon
  <2> HIDE DEF here, First
  <2> QED BY <1>6, <2>1, <2>4, <2>5
<1>7. N \in A
  <2>1. N \in 0..N
    BY <1>3
  <2> HIDE DEF A
  <2> QED BY <1>3, <1>5, <1>6, <2>1, BoundedInduction
<1> QED BY <1>2, <1>4, <1>7

(* syncClusterRole computes, for a role, the rules of the roles that some  *)
(* selector of it matches, each of them once.                              *)
THEOREM AggregateIsUnion ==
  ASSUME NEW roles \in [Roles -> RoleObject], NEW key \in Roles
  PROVE  /\ Aggregate(roles, key) \in Seq(Rules)
         /\ ToSet(Aggregate(roles, key)) = RulesBelow(roles, key)
         /\ IsInjective(Aggregate(roles, key))
<1> DEFINE L == Selectors[key]
           N == Len(L)
           First(n) == UNION {ListedRules(roles, key, L[i]) : i \in 1..n}
<1>1. PICK f \in [0..N -> Seq(Rules)] :
        /\ f[0] = <<>> /\ Aggregating(roles, key) = f
        /\ \A n \in 1..N : f[n] = AddMatching(f[n - 1], roles, key, L[n])
  BY AggregatingLoop, Zenon
<1> DEFINE A == {n \in 0..N : ToSet(f[n]) = First(n) /\ IsInjective(f[n])}
<1>2. L \in Seq(Labels) /\ N \in Nat /\ ToSet(L) = {L[i] : i \in 1..N}
  <2>1. L \in Seq(Labels)
    BY AggregationAssumption DEF AggregationAssumption
  <2> HIDE DEF L
  <2> QED BY <2>1 DEF ToSet
<1>3. First(N) = RulesBelow(roles, key)
  <2>1. \A x : x \in Selected(roles, key) <=> \E i \in 1..N : x \in Matching(roles, key, L[i])
    BY <1>2 DEF Selected, Matching
  <2> HIDE DEF N, L
  <2>2. \A l : \A e : e \in ListedRules(roles, key, l) <=>
               \E x \in Matching(roles, key, l) : e \in ToSet(roles[x].rules)
    BY Zenon DEF ListedRules
  <2>3. \A e : e \in First(N) <=>
               \E i \in 1..N : \E x \in Matching(roles, key, L[i]) : e \in ToSet(roles[x].rules)
    BY <2>2, Zenon
  <2>4. \A e : e \in RulesBelow(roles, key) <=>
               \E x \in Selected(roles, key) : e \in ToSet(roles[x].rules)
    BY Zenon DEF RulesBelow
  <2>5. \A e : e \in First(N) <=> e \in RulesBelow(roles, key)
    <3> HIDE DEF First
    <3> QED BY <2>1, <2>3, <2>4, Zenon
  <2> HIDE DEF First
  <2> QED BY <2>5
<1> HIDE DEF N, L
<1>4. 0 \in A
  <2>1. First(0) = {}
    OBVIOUS
  <2>2. ToSet(<<>>) = {} /\ IsInjective(<<>>)
    BY DEF ToSet, IsInjective
  <2>3. 0 \in 0..N /\ f[0] = <<>>
    BY <1>1, <1>2
  <2> HIDE DEF First
  <2> QED BY <2>1, <2>2, <2>3, Zenon
<1>5. ASSUME NEW n \in 1..N, n - 1 \in A PROVE n \in A
  <2>1. f[n - 1] \in Seq(Rules) /\ n \in 0..N
    BY <1>2
  <2>2. f[n] = AddMatching(f[n - 1], roles, key, L[n])
    BY <1>1
  <2>3. /\ ToSet(f[n]) = ToSet(f[n - 1]) \cup ListedRules(roles, key, L[n])
        /\ IsInjective(f[n - 1]) => IsInjective(f[n])
    BY <2>1, <2>2, AddMatchingContent
  <2>4. First(n) = First(n - 1) \cup ListedRules(roles, key, L[n])
    <3>1. \A i \in 1..n : i \in 1..(n - 1) \/ i = n
      BY <1>2
    <3>2. (\A i \in 1..(n - 1) : i \in 1..n) /\ n \in 1..n
      BY <1>2
    <3> QED BY <3>1, <3>2, Zenon
  <2> HIDE DEF First
  <2> QED BY <1>5, <2>1, <2>3, <2>4
<1>6. N \in A
  <2>1. N \in 0..N
    BY <1>2
  <2> HIDE DEF A
  <2> QED BY <1>2, <1>4, <1>5, <2>1, BoundedInduction
<1>7. Aggregate(roles, key) = f[N] /\ f[N] \in Seq(Rules)
  BY <1>1, <1>2 DEF Aggregate, N, L
<1> QED BY <1>3, <1>6, <1>7

(* There is a number of roles.                                             *)
LEMMA RolesFinite == IsFiniteSet(Roles) /\ Cardinality(Roles) \in Nat
<1> DEFINE N == Len(Names)
<1>1. Names \in [1..N -> Roles] /\ N \in Nat
  BY AggregationAssumption DEF AggregationAssumption
<1>2. Names \in Surjection(1..N, Roles)
  BY <1>1, NamesCover DEF Surjection
<1>3. IsFiniteSet(1..N)
  BY <1>1, FS_Interval
<1> HIDE DEF N
<1>4. IsFiniteSet(Roles)
  BY <1>2, <1>3, FS_Surjection
<1> QED BY <1>4, FS_CardinalityType

(* What the roles grant, one layer of aggregation after the other.         *)
LEMMA GrantsLayers ==
  ASSUME NEW roles \in [Roles -> RoleObject], NEW filled
  PROVE  /\ Grants(filled, roles)[0] = [x \in Roles |-> {}]
         /\ \A n \in 1..Cardinality(Roles) :
              Grants(filled, roles)[n] = GrantsOver(filled, roles, Grants(filled, roles)[n - 1])
<1> DEFINE N == Cardinality(Roles)
           S == [Roles -> SUBSET Rules]
           none == [x \in Roles |-> {}]
           body(g) == [n \in 0..N |-> IF n = 0 THEN none ELSE GrantsOver(filled, roles, g[n - 1])]
           step == [n \in 1..N |-> [s \in S |-> GrantsOver(filled, roles, s)]]
<1>1. N \in Nat /\ none \in S
  BY RolesFinite
<1>2. \A s \in S : GrantsOver(filled, roles, s) \in S
  <2> TAKE s \in S
  <2>1. \A x \in Roles : ToSet(roles[x].rules) \in SUBSET Rules
    <3> TAKE x \in Roles
    <3>1. roles[x].rules \in Seq(Rules)
      BY DEF RoleObject
    <3> QED BY <3>1 DEF ToSet
  <2>2. \A x \in Roles : UNION {s[y] : y \in Selected(roles, x)} \in SUBSET Rules
    BY DEF Selected, Present
  <2> QED BY <2>1, <2>2 DEF GrantsOver
<1> HIDE DEF N, S, none
<1>3. step \in [1..N -> [S -> S]]
  BY <1>2
<1>4. PICK g : Loop(S, N, none, step, g)
  <2> HIDE DEF step
  <2> QED BY <1>1, <1>3, LoopExists
<1>5. g \in [0..N -> S] /\ g[0] = none /\ \A n \in 1..N : g[n] = GrantsOver(filled, roles, g[n - 1])
  <2>1. g \in [0..N -> S] /\ g[0] = none /\ \A n \in 1..N : g[n] = step[n][g[n - 1]]
    BY <1>4 DEF Loop
  <2>2. \A n \in 1..N : g[n - 1] \in S
    BY <1>1, <2>1
  <2> QED BY <2>1, <2>2
<1>6. g = body(g)
  BY <1>1, <1>5
<1> DEFINE f == CHOOSE h : h = body(h)
<1>7. f = body(f)
  <2> HIDE DEF body
  <2> QED BY <1>6
<1>8. Grants(filled, roles) = f
  BY Zenon DEF Grants, N, none
<1> HIDE DEF f
<1>9. f[0] = none /\ \A n \in 1..N : f[n] = GrantsOver(filled, roles, f[n - 1])
  BY <1>1, <1>7
<1> QED BY <1>8, <1>9 DEF N, none

(* If every filled role has the rules of what it selects, and no role      *)
(* aggregates itself, it has the rules of the roles at the bottom.         *)
LEMMA LayersReachTheBottom ==
  ASSUME NEW roles \in [Roles -> RoleObject], Acyclic(roles),
         NEW filled \in SUBSET {r \in Roles : roles[r].agg},
         \A r \in filled : ToSet(roles[r].rules) = RulesBelow(roles, r)
  PROVE  \A r \in Roles : Granted(filled, roles)[r] = ToSet(roles[r].rules)
<1> DEFINE N == Cardinality(Roles)
           f == Grants(filled, roles)
<1>1. PICK rank \in [Roles -> 1..N] :
        \A r \in Roles : roles[r].agg => \A x \in Selected(roles, r) : rank[x] < rank[r]
  BY DEF Acyclic
<1>2. N \in Nat
  BY RolesFinite
<1>3. \A n \in 1..N : f[n] = GrantsOver(filled, roles, f[n - 1])
  BY GrantsLayers
<1> DEFINE A == {n \in 0..N : \A x \in Roles : rank[x] <= n => f[n][x] = ToSet(roles[x].rules)}
<1> HIDE DEF N, f
<1>4. 0 \in A
  <2>1. \A x \in Roles : ~(rank[x] <= 0)
    BY <1>2
  <2>2. 0 \in 0..N
    BY <1>2
  <2> QED BY <2>1, <2>2
<1>5. ASSUME NEW n \in 1..N, n - 1 \in A PROVE n \in A
  <2>1. ASSUME NEW x \in Roles, rank[x] <= n PROVE f[n][x] = ToSet(roles[x].rules)
    <3> DEFINE below == f[n - 1]
    <3>0. f[n] = GrantsOver(filled, roles, below)
      BY <1>3
    <3> HIDE DEF below
    <3>1. CASE x \notin filled
      BY <3>0, <3>1, Zenon DEF GrantsOver
    <3>2. CASE x \in filled
      <4>1. \A y \in Selected(roles, x) : y \in Roles /\ rank[y] < rank[x]
        BY <1>1, <3>2 DEF Selected, Present
      <4>2. \A y \in Selected(roles, x) : rank[y] <= n - 1
        BY <1>2, <2>1, <4>1
      <4>3. \A y \in Selected(roles, x) : f[n - 1][y] = ToSet(roles[y].rules)
        BY <1>5, <4>1, <4>2
      <4>4. f[n][x] = UNION {below[y] : y \in Selected(roles, x)}
        BY <3>0, <3>2, Zenon DEF GrantsOver
      <4>5. f[n][x] = UNION {f[n - 1][y] : y \in Selected(roles, x)}
        BY <4>4 DEF below
      <4>6. UNION {f[n - 1][y] : y \in Selected(roles, x)} = RulesBelow(roles, x)
        BY <4>3, Zenon DEF RulesBelow
      <4> QED BY <3>2, <4>5, <4>6
    <3> QED BY <3>1, <3>2
  <2>2. n \in 0..N
    BY <1>2
  <2> QED BY <2>1, <2>2
<1>6. N \in A
  <2>1. N \in 0..N
    BY <1>2
  <2> HIDE DEF A
  <2> QED BY <1>2, <1>4, <1>5, <2>1, BoundedInduction
<1>7. ASSUME NEW r \in Roles PROVE Granted(filled, roles)[r] = ToSet(roles[r].rules)
  <2>1. rank[r] <= N
    BY <1>2
  <2>2. f[N][r] = ToSet(roles[r].rules)
    BY <1>6, <2>1
  <2> QED BY <2>2 DEF Granted, N, f
<1> QED BY <1>7
-------------------------------------------------------------------------------
(* The controller.                                                         *)

(* Replaying the events on their way brings the cache to the store.        *)
Lagging ==
  /\ \A r \in Roles : (\A i \in 1..Len(watch) : watch[i].role # r) => cache[r] = store[r]
  /\ \A i \in 1..Len(watch) :
       (\A j \in (i + 1)..Len(watch) : watch[j].role # watch[i].role)
         => watch[i].value = store[watch[i].role]

(* Worker w works on role r with what the cache says now.                  *)
Fresh(w, r) ==
  /\ Busy(w) /\ worker[w].key = r
  /\ worker[w].at # 0 =>
       /\ worker[w].at \in 1..(Len(Selectors[r]) + 1)
       /\ worker[w].shared = cache[r]
       /\ worker[w].rules = Aggregating(cache, r)[worker[w].at - 1]

(* Role r is queued, a worker has it as it is now, it has its rules, or    *)
(* there are none for it and its own are left to their owner.              *)
Settled(r) ==
  \/ r \in dirty \cup retry
  \/ \E w \in Workers : Fresh(w, r)
  \/ cache[r].rules = Aggregate(cache, r)
  \/ Aggregate(cache, r) = <<>> /\ "users" \in owners[r]

(* An aggregated role is looked at again, now or after an event, unless it *)
(* has its rules.                                                          *)
DueInv ==
  watch = <<>> /\ notify = 0 => \A r \in Roles : cache[r].agg => Settled(r)

(* A worker with a key it has not read the role of has no rules yet.       *)
NoRulesYet == \A w \in Workers : Busy(w) /\ worker[w].at = 0 => worker[w].rules = <<>>

IInv == TypeOK /\ Lagging /\ NoRulesYet /\ DueInv

(* Writing a role keeps the store and the events in their types.           *)
LEMMA WriteType ==
  ASSUME TypeOK, NEW r \in Roles, NEW v \in RoleObject, Write(r, v)
  PROVE  /\ store' \in [Roles -> RoleObject]
         /\ watch' \in Seq([role : Roles, value : RoleObject])
<1> DEFINE E == [role : Roles, value : RoleObject]
           e == [role |-> r, value |-> v]
<1>1. store' \in [Roles -> RoleObject]
  BY DEF TypeOK, Write
<1>2. e \in E /\ watch \in Seq(E)
  BY DEF TypeOK
<1>3. watch' = watch \/ watch' = Append(watch, e)
  BY DEF Write
<1> HIDE DEF E, e
<1>4. watch' \in Seq(E)
  BY <1>2, <1>3, AppendProperties
<1> QED BY <1>1, <1>4 DEF E

(* Writing a role tells the informer of it.                                *)
LEMMA WriteLagging ==
  ASSUME TypeOK, Lagging, NEW r \in Roles, NEW v \in RoleObject, Write(r, v), cache' = cache
  PROVE  Lagging'
<1>1. CASE v = store[r]
  <2>1. store' = store /\ watch' = watch
    BY <1>1 DEF Write, TypeOK
  <2> QED BY <2>1 DEF Lagging
<1>2. CASE v # store[r]
  <2> DEFINE e == [role |-> r, value |-> v]
             N == Len(watch)
  <2>1. e \in [role : Roles, value : RoleObject] /\ watch \in Seq([role : Roles, value : RoleObject])
    BY DEF TypeOK
  <2>2. watch' = Append(watch, e) /\ store' = [store EXCEPT ![r] = v]
    BY <1>2 DEF Write
  <2>3. /\ N \in Nat /\ Len(watch') = N + 1 /\ watch'[N + 1] = e
        /\ \A i \in 1..N : watch'[i] = watch[i] /\ watch[i].role \in Roles
    <3> DEFINE E == [role : Roles, value : RoleObject]
    <3>1. e \in E /\ watch \in Seq(E)
      BY <2>1
    <3>2. \A x \in E : x.role \in Roles
      OBVIOUS
    <3> HIDE DEF E, e
    <3>3. /\ N \in Nat /\ Len(watch') = N + 1 /\ watch'[N + 1] = e
          /\ \A i \in 1..N : watch'[i] = watch[i] /\ watch[i] \in E
      BY <2>2, <3>1, AppendProperties, ElementOfSeq, LenProperties
    <3> QED BY <3>2, <3>3
  <2>4. \A x \in Roles : (\A i \in 1..(N + 1) : watch'[i].role # x) => cache[x] = store'[x]
    <3> SUFFICES ASSUME NEW x \in Roles, \A i \in 1..(N + 1) : watch'[i].role # x
                 PROVE  cache[x] = store'[x]
      OBVIOUS
    <3>1. x # r
      BY <2>3
    <3>2. \A i \in 1..N : watch[i].role # x
      BY <2>3
    <3>3. cache[x] = store[x]
      BY <3>2 DEF Lagging
    <3> QED BY <2>2, <3>1, <3>3 DEF TypeOK
  <2>5. ASSUME NEW i \in 1..(N + 1),
               \A j \in (i + 1)..(N + 1) : watch'[j].role # watch'[i].role
        PROVE  watch'[i].value = store'[watch'[i].role]
    <3>1. CASE i = N + 1
      BY <2>2, <2>3, <3>1 DEF TypeOK
    <3>2. CASE i \in 1..N
      <4>1. N + 1 \in (i + 1)..(N + 1)
        BY <2>3, <3>2
      <4>2. watch[i].role # r
        BY <2>3, <2>5, <3>2, <4>1
      <4>3. \A j \in (i + 1)..N : j \in (i + 1)..(N + 1) /\ j \in 1..N
        BY <2>3, <3>2
      <4>4. \A j \in (i + 1)..N : watch[j].role # watch[i].role
        BY <2>3, <2>5, <3>2, <4>3
      <4>5. watch[i].value = store[watch[i].role]
        BY <3>2, <4>4 DEF Lagging
      <4> QED BY <2>2, <2>3, <3>2, <4>2, <4>5 DEF TypeOK
    <3> QED BY <2>3, <3>1, <3>2
  <2> QED BY <2>3, <2>4, <2>5 DEF Lagging
<1> QED BY <1>1, <1>2

(* Delivering the oldest event leaves the others to replay.                *)
LEMMA DeliverLagging ==
  ASSUME TypeOK, Lagging, Deliver
  PROVE  Lagging'
<1> DEFINE N == Len(watch)
           h == watch[1]
<1>1. /\ N \in Nat \ {0} /\ Len(watch') = N - 1 /\ h = Head(watch)
      /\ \A i \in 1..(N - 1) : watch'[i] = watch[i + 1]
      /\ \A i \in 1..N : watch[i].role \in Roles
  <2> DEFINE E == [role : Roles, value : RoleObject]
  <2>1. watch \in Seq(E) /\ watch # <<>> /\ watch' = Tail(watch)
    BY DEF Deliver, TypeOK
  <2>2. \A x \in E : x.role \in Roles
    OBVIOUS
  <2> HIDE DEF E
  <2>3. /\ N \in Nat \ {0} /\ Len(watch') = N - 1 /\ h = Head(watch)
        /\ \A i \in 1..(N - 1) : watch'[i] = watch[i + 1]
    BY <2>1, HeadTailProperties, EmptySeq, LenProperties
  <2>4. \A i \in 1..N : watch[i] \in E
    BY <2>1, ElementOfSeq
  <2> QED BY <2>2, <2>3, <2>4
<1>2. cache' = [cache EXCEPT ![h.role] = h.value] /\ store' = store /\ cache \in [Roles -> RoleObject]
  BY <1>1 DEF Deliver, TypeOK
<1>3. ASSUME NEW x \in Roles, \A i \in 1..(N - 1) : watch'[i].role # x
      PROVE  cache'[x] = store'[x]
  <2>1. \A i \in 2..N : watch[i].role # x
    <3> TAKE i \in 2..N
    <3>1. i - 1 \in 1..(N - 1) /\ (i - 1) + 1 = i
      BY <1>1
    <3> QED BY <1>1, <1>3, <3>1
  <2>2. CASE h.role = x
    <3>1. h.value = store[x]
      <4>1. 1 \in 1..N /\ \A j \in (1 + 1)..N : j \in 2..N
        BY <1>1
      <4> QED BY <2>1, <2>2, <4>1 DEF Lagging
    <3> QED BY <1>2, <2>2, <3>1
  <2>3. CASE h.role # x
    <3>1. \A i \in 1..N : watch[i].role # x
      <4>1. \A i \in 1..N : i = 1 \/ i \in 2..N
        BY <1>1
      <4> QED BY <2>1, <2>3, <4>1
    <3>2. cache[x] = store[x]
      BY <3>1 DEF Lagging
    <3> QED BY <1>2, <2>3, <3>2
  <2> QED BY <2>2, <2>3
<1>4. ASSUME NEW i \in 1..(N - 1),
             \A j \in (i + 1)..(N - 1) : watch'[j].role # watch'[i].role
      PROVE  watch'[i].value = store'[watch'[i].role]
  <2>1. i + 1 \in 1..N /\ watch'[i] = watch[i + 1]
    BY <1>1
  <2>2. \A j \in ((i + 1) + 1)..N : watch[j].role # watch[i + 1].role
    <3> TAKE j \in ((i + 1) + 1)..N
    <3>1. j - 1 \in (i + 1)..(N - 1) /\ j - 1 \in 1..(N - 1) /\ (j - 1) + 1 = j
      BY <1>1
    <3> QED BY <1>1, <1>4, <2>1, <3>1
  <2>3. watch[i + 1].value = store[watch[i + 1].role]
    BY <2>1, <2>2 DEF Lagging
  <2> QED BY <1>2, <2>1, <2>3
<1> QED BY <1>1, <1>3, <1>4 DEF Lagging

(* The informer tells the handlers of as many roles as there are, and of   *)
(* none only if none aggregates.                                           *)
LEMMA PresentCount ==
  ASSUME NEW roles \in [Roles -> RoleObject]
  PROVE  /\ Cardinality(Present(roles)) \in Nat
         /\ Cardinality(Present(roles)) = 0 => \A r \in Roles : ~roles[r].agg
<1>1. IsFiniteSet(Roles)
  BY RolesFinite
<1>2. IsFiniteSet(Present(roles))
  <2>1. Present(roles) \in SUBSET Roles
    BY DEF Present
  <2> QED BY <1>1, <2>1, FS_Subset
<1>3. Cardinality(Present(roles)) = 0 => Present(roles) = {}
  BY <1>2, FS_EmptySet
<1>4. \A r \in Roles : roles[r].agg => r \in Present(roles)
  BY DEF Present, Absent
<1> QED BY <1>2, <1>3, <1>4, FS_CardinalityType

(* What a worker with a key has.                                           *)
LEMMA BusyWorker ==
  ASSUME TypeOK, NEW w \in Workers, Busy(w)
  PROVE  /\ worker[w] \in WorkerBusy /\ worker[w].key \in Roles /\ worker[w].at \in Nat
         /\ worker[w].shared \in RoleObject /\ worker[w].rules \in Seq(Rules)
<1>1. worker[w] \in {Idle} \cup WorkerBusy
  BY DEF TypeOK
<1>2. worker[w] \in WorkerBusy
  BY <1>1 DEF Busy, Idle
<1> QED BY <1>2 DEF WorkerBusy

(* The worker's part of the type.                                          *)
WorkerType ==
  /\ worker \in [Workers -> {Idle} \cup WorkerBusy]
  /\ \A v, w \in Workers : Busy(v) /\ Busy(w) /\ worker[v].key = worker[w].key => v = w

(* A worker that goes on to x, with a key nobody else has, keeps the type. *)
LEMMA WorkerGoesOn ==
  ASSUME TypeOK, NEW w \in Workers, NEW x \in {Idle} \cup WorkerBusy,
         worker' = [worker EXCEPT ![w] = x],
         x.busy => \A v \in Workers \ {w} : Busy(v) => worker[v].key # x.key
  PROVE  WorkerType'
<1>1. worker' \in [Workers -> {Idle} \cup WorkerBusy]
  BY DEF TypeOK
<1>2. worker'[w] = x /\ \A v \in Workers \ {w} : worker'[v] = worker[v]
  BY DEF TypeOK
<1>3. ASSUME NEW v \in Workers, NEW u \in Workers,
             worker'[v].busy, worker'[u].busy, worker'[v].key = worker'[u].key
      PROVE  v = u
  BY <1>2, <1>3 DEF TypeOK, Busy
<1> QED BY <1>1, <1>3 DEF WorkerType, Busy

(* A key that is taken from the queue is with no worker.                   *)
LEMMA GetKeyWorker ==
  ASSUME TypeOK, NEW w \in Workers, GetKey(w)
  PROVE  WorkerType' /\ dirty' \subseteq Roles
<1>1. PICK k \in dirty \ Processing :
        /\ dirty' = dirty \ {k}
        /\ worker' = [worker EXCEPT ![w] =
             [busy |-> TRUE, key |-> k, at |-> 0, shared |-> Absent, rules |-> <<>>]]
  BY DEF GetKey
<1> DEFINE x == [busy |-> TRUE, key |-> k, at |-> 0, shared |-> Absent, rules |-> <<>>]
<1>2. k \in Roles
  BY DEF TypeOK
<1>3. Absent \in RoleObject /\ <<>> \in Seq(Rules)
  BY DEF Absent, RoleObject
<1>4. x \in WorkerBusy
  BY <1>2, <1>3 DEF WorkerBusy
<1>5. \A v \in Workers \ {w} : Busy(v) => worker[v].key # x.key
  BY DEF Processing
<1>6. x \in {Idle} \cup WorkerBusy /\ worker' = [worker EXCEPT ![w] = x]
  BY <1>1, <1>4
<1> HIDE DEF x
<1>7. WorkerType'
  BY <1>5, <1>6, WorkerGoesOn
<1> QED BY <1>1, <1>7 DEF TypeOK

(* The first read of the cache keeps the type.                             *)
LEMMA GetRoleWorker ==
  ASSUME TypeOK, NEW w \in Workers, GetRole(w)
  PROVE  WorkerType'
<1> DEFINE role == cache[worker[w].key]
           x == IF role.agg THEN [worker[w] EXCEPT !.at = 1, !.shared = role] ELSE Idle
<1>1. Busy(w) /\ worker' = [worker EXCEPT ![w] = x]
  BY DEF GetRole, TypeOK
<1>2. worker[w] \in WorkerBusy /\ role \in RoleObject
  BY <1>1, BusyWorker DEF TypeOK
<1>3. x \in {Idle} \cup WorkerBusy /\ (x.busy => x.key = worker[w].key)
  BY <1>2 DEF WorkerBusy, Idle
<1>4. x.busy => \A v \in Workers \ {w} : Busy(v) => worker[v].key # x.key
  BY <1>1, <1>3 DEF TypeOK
<1> HIDE DEF x
<1> QED BY <1>1, <1>3, <1>4, WorkerGoesOn

(* And so does each List.                                                  *)
LEMMA ListSelectorWorker ==
  ASSUME TypeOK, NEW w \in Workers, ListSelector(w)
  PROVE  WorkerType'
<1> DEFINE key == worker[w].key
           more == AddMatching(worker[w].rules, cache, key, Selectors[key][worker[w].at])
           x == [worker[w] EXCEPT !.at = worker[w].at + 1, !.rules = more]
<1>1. Busy(w)
  BY DEF ListSelector
<1>2. worker[w] \in WorkerBusy /\ key \in Roles /\ worker[w].rules \in Seq(Rules) /\ worker[w].at \in Nat
  BY <1>1, BusyWorker
<1>3. more \in Seq(Rules)
  BY <1>2, AddMatchingType DEF TypeOK
<1>4. worker' = [worker EXCEPT ![w] = x]
  BY <1>2 DEF ListSelector, TypeOK, WorkerBusy
<1>5. x \in {Idle} \cup WorkerBusy /\ x.key = worker[w].key
  <2>1. worker[w].at + 1 \in Nat
    BY <1>2
  <2> DEFINE n == worker[w].at + 1
  <2> HIDE DEF more, n, key
  <2>2. [worker[w] EXCEPT !.at = n, !.rules = more] \in WorkerBusy
    BY <1>2, <1>3, <2>1 DEF WorkerBusy, n
  <2> QED BY <1>2, <2>2 DEF WorkerBusy, n
<1>6. x.busy => \A v \in Workers \ {w} : Busy(v) => worker[v].key # x.key
  BY <1>1, <1>5 DEF TypeOK
<1> HIDE DEF x
<1> QED BY <1>4, <1>5, <1>6, WorkerGoesOn

(* A worker that is done keeps the type.                                   *)
LEMMA DoneWorker ==
  ASSUME TypeOK, NEW w \in Workers, worker' = [worker EXCEPT ![w] = Idle]
  PROVE  WorkerType'
<1>1. Idle \in {Idle} \cup WorkerBusy /\ ~Idle.busy
  BY DEF Idle
<1> QED BY <1>1, WorkerGoesOn

(* Server-side apply writes a role.                                        *)
LEMMA AppliedType ==
  ASSUME TypeOK, NEW w \in Workers, Busy(w)
  PROVE  /\ Applied(w) \in RoleObject
         /\ \/ worker[w].rules = <<>> /\ "users" \in owners[worker[w].key]
            \/ Applied(w).rules = worker[w].rules
<1>1. worker[w].key \in Roles /\ worker[w].rules \in Seq(Rules)
  BY BusyWorker
<1>2. store[worker[w].key] \in RoleObject
  BY <1>1 DEF TypeOK
<1> QED BY <1>1, <1>2 DEF Applied, RoleObject

(* What ApplyClusterRoles writes, if it writes.                            *)
LEMMA ApplyWrites ==
  ASSUME NEW w \in Workers, ApplyClusterRoles(w)
  PROVE  /\ Computed(w) /\ Busy(w) /\ worker' = [worker EXCEPT ![w] = Idle]
         /\ cache' = cache /\ notify' = notify /\ dirty' = dirty
         /\ edits' = edits /\ stops' = stops
         /\ UNCHANGED <<store, owners, watch>> \/ Apply(w)
         /\ Apply(w) => Write(worker[w].key, Applied(w))
         /\ \/ retry' = retry /\ errors' = errors
            \/ retry' = retry \cup {worker[w].key} /\ errors' = errors + 1
         /\ \/ worker[w].rules = worker[w].shared.rules
            \/ Apply(w)
            \/ worker[w].key \in retry'
BY DEF ApplyClusterRoles, Computed, Requeued, Apply

(* An apply that changes no rules takes no claim of the users away.        *)
LEMMA SilentApply ==
  ASSUME TypeOK, NEW w \in Workers, Busy(w), Apply(w), Applied(w) = store[worker[w].key],
         NEW r \in Roles, "users" \in owners[r]
  PROVE  "users" \in owners'[r]
<1>1. worker[w].key \in Roles /\ worker[w].rules \in Seq(Rules)
  BY BusyWorker
<1>2. owners'[r] = IF r = worker[w].key THEN OwnersAfterApply(w) ELSE owners[r]
  BY DEF Apply, TypeOK
<1>3. worker[w].rules # <<>> => worker[w].rules = store[worker[w].key].rules
  BY <1>1, AppliedType DEF Applied
<1> QED BY <1>2, <1>3 DEF OwnersAfterApply

(* The invariant holds at the start.                                       *)
LEMMA InitIInv == Init => IInv
<1> SUFFICES ASSUME Init PROVE IInv
  OBVIOUS
<1>1. store \in [Roles -> RoleObject] /\ cache = store /\ watch = <<>>
      /\ notify = Cardinality(Present(store))
  BY AggregationAssumption DEF AggregationAssumption, Init
<1>7. owners \in [Roles -> SUBSET Managers]
  BY AggregationAssumption DEF AggregationAssumption, Init
<1>2. \A w \in Workers : ~Busy(w)
  BY DEF Init, Busy, Idle
<1>3. TypeOK
  <2>1. notify \in Nat
    BY <1>1, PresentCount
  <2>2. worker \in [Workers -> {Idle} \cup WorkerBusy]
    BY DEF Init
  <2>3. watch \in Seq([role : Roles, value : RoleObject])
    BY <1>1
  <2> QED BY <1>1, <1>2, <1>7, <2>1, <2>2, <2>3 DEF Init, TypeOK
<1>4. Lagging
  BY <1>1 DEF Lagging
<1>5. DueInv
  BY <1>1, PresentCount DEF DueInv
<1>6. NoRulesYet
  BY <1>2 DEF NoRulesYet
<1> QED BY <1>3, <1>4, <1>5, <1>6 DEF IInv

(* Every step keeps the type.                                              *)
LEMMA TypeStep == TypeOK /\ [Next]_vars => TypeOK'
<1> SUFFICES ASSUME TypeOK, [Next]_vars PROVE TypeOK'
  OBVIOUS
<1> DEFINE E == [role : Roles, value : RoleObject]
           Rest == /\ notify' \in Nat /\ dirty' \subseteq Roles /\ retry' \subseteq Roles
                   /\ cache' \in [Roles -> RoleObject]
                   /\ owners' \in [Roles -> SUBSET Managers]
                   /\ edits' \in Nat /\ errors' \in Nat /\ stops' \in Nat
           Stored == store' \in [Roles -> RoleObject] /\ watch' \in Seq(E)
<1>0. /\ WorkerType /\ watch \in Seq(E) /\ store \in [Roles -> RoleObject]
      /\ cache \in [Roles -> RoleObject] /\ dirty \subseteq Roles /\ retry \subseteq Roles
      /\ notify \in Nat /\ edits \in Nat /\ errors \in Nat /\ stops \in Nat
      /\ owners \in [Roles -> SUBSET Managers]
  BY DEF TypeOK, WorkerType
<1>1. ASSUME Rest, Stored, WorkerType' PROVE TypeOK'
  BY <1>1 DEF TypeOK, WorkerType
<1>2. ASSUME UNCHANGED worker PROVE WorkerType'
  BY <1>0, <1>2 DEF WorkerType, Busy
<1>3. ASSUME UNCHANGED <<store, watch>> PROVE Stored
  BY <1>0, <1>3
<1>4. ASSUME NEW r \in Roles, NEW v \in RoleObject, Write(r, v) PROVE Stored
  BY <1>4, WriteType
<1> HIDE DEF Stored
<1>5. ASSUME NEW r \in Roles, Edit(r) PROVE TypeOK'
  <2>1. Stored
    BY <1>4, <1>5, AggregationAssumption DEF Edit, AggregationAssumption
  <2>3. PICK o \in SUBSET Managers : owners' = [owners EXCEPT ![r] = o]
    BY <1>5 DEF Edit, OwnersAfterEdit, Managers
  <2>2. Rest /\ UNCHANGED worker
    BY <1>0, <1>5, <2>3 DEF Edit
  <2> QED BY <1>1, <1>2, <2>1, <2>2
<1>6. ASSUME NEW r \in Roles, RetryDue(r) PROVE TypeOK'
  <2>1. Rest /\ UNCHANGED worker /\ UNCHANGED <<store, watch>>
    BY <1>0, <1>6 DEF RetryDue
  <2> QED BY <1>1, <1>2, <1>3, <2>1
<1>7. CASE Deliver
  <2>1. Head(watch) \in E /\ Tail(watch) \in Seq(E)
    <3>1. watch # <<>>
      BY <1>7 DEF Deliver
    <3> HIDE DEF E
    <3> QED BY <1>0, <3>1, HeadTailProperties
  <2>2. Rest /\ UNCHANGED worker
    BY <1>0, <1>7, <2>1 DEF Deliver
  <2>3. Stored
    BY <1>0, <1>7, <2>1 DEF Deliver, Stored
  <2> QED BY <1>1, <1>2, <2>2, <2>3
<1>8. CASE enqueue
  <2>1. Rest /\ UNCHANGED worker /\ UNCHANGED <<store, watch>>
    BY <1>0, <1>8 DEF enqueue, ToQueue
  <2> QED BY <1>1, <1>2, <1>3, <2>1
<1>9. CASE Restart
  <2>1. Rest
    BY <1>0, <1>9, PresentCount DEF Restart
  <2>2. Stored
    BY <1>0, <1>9 DEF Restart, Stored
  <2>3. WorkerType'
    BY <1>9 DEF Restart, WorkerType, Busy, Idle
  <2> QED BY <1>1, <2>1, <2>2, <2>3
<1>10. ASSUME NEW w \in Workers, GetKey(w) PROVE TypeOK'
  <2>1. WorkerType' /\ dirty' \subseteq Roles
    BY <1>10, GetKeyWorker
  <2>2. Rest /\ UNCHANGED <<store, watch>>
    BY <1>0, <1>10, <2>1 DEF GetKey
  <2> QED BY <1>1, <1>3, <2>1, <2>2
<1>11. ASSUME NEW w \in Workers, GetRole(w) PROVE TypeOK'
  <2>1. WorkerType'
    BY <1>11, GetRoleWorker
  <2>2. Rest /\ UNCHANGED <<store, watch>>
    BY <1>0, <1>11 DEF GetRole
  <2> QED BY <1>1, <1>3, <2>1, <2>2
<1>12. ASSUME NEW w \in Workers, ListSelector(w) PROVE TypeOK'
  <2>1. WorkerType'
    BY <1>12, ListSelectorWorker
  <2>2. Rest /\ UNCHANGED <<store, watch>>
    BY <1>0, <1>12 DEF ListSelector
  <2> QED BY <1>1, <1>3, <2>1, <2>2
<1>13. ASSUME NEW w \in Workers, ApplyClusterRoles(w) PROVE TypeOK'
  <2>1. Busy(w) /\ worker' = [worker EXCEPT ![w] = Idle]
        /\ (UNCHANGED <<store, owners, watch>> \/ Apply(w))
        /\ (Apply(w) => Write(worker[w].key, Applied(w)))
    BY <1>13, ApplyWrites
  <2>2. WorkerType'
    BY <2>1, DoneWorker
  <2>3. worker[w].key \in Roles /\ Applied(w) \in RoleObject
    BY <2>1, BusyWorker, AppliedType
  <2>4. Stored
    BY <1>3, <1>4, <2>1, <2>3
  <2>6. owners' \in [Roles -> SUBSET Managers]
    <3>1. OwnersAfterApply(w) \in SUBSET Managers
      BY <1>0, <2>3 DEF OwnersAfterApply, Managers
    <3> QED BY <1>0, <2>1, <3>1 DEF Apply
  <2>5. Rest
    BY <1>0, <1>13, <2>3, <2>6, ApplyWrites
  <2> QED BY <1>1, <2>2, <2>4, <2>5
<1>14. CASE UNCHANGED vars
  <2>1. Rest /\ UNCHANGED worker /\ UNCHANGED <<store, watch>>
    BY <1>0, <1>14 DEF vars
  <2> QED BY <1>1, <1>2, <1>3, <2>1
<1> QED BY <1>5, <1>6, <1>7, <1>8, <1>9, <1>10, <1>11, <1>12, <1>13, <1>14 DEF Next, Work

(* Every step leaves the events to replay.                                 *)
LEMMA LaggingStep == TypeOK /\ Lagging /\ [Next]_vars => Lagging'
<1> SUFFICES ASSUME TypeOK, Lagging, [Next]_vars PROVE Lagging'
  OBVIOUS
<1>1. ASSUME UNCHANGED <<store, watch, cache>> PROVE Lagging'
  BY <1>1 DEF Lagging
<1>2. ASSUME NEW r \in Roles, Edit(r) PROVE Lagging'
  <2>1. PICK v \in RoleObject : Write(r, v)
    BY <1>2, AggregationAssumption DEF Edit, AggregationAssumption
  <2>2. cache' = cache
    BY <1>2 DEF Edit
  <2> QED BY <2>1, <2>2, WriteLagging
<1>3. ASSUME NEW w \in Workers, ApplyClusterRoles(w) PROVE Lagging'
  <2>1. Busy(w) /\ cache' = cache
        /\ (UNCHANGED <<store, watch>> \/ Write(worker[w].key, Applied(w)))
    BY <1>3, ApplyWrites
  <2>2. worker[w].key \in Roles /\ Applied(w) \in RoleObject
    BY <2>1, BusyWorker, AppliedType
  <2> QED BY <1>1, <2>1, <2>2, WriteLagging
<1>4. CASE Restart
  <2>1. watch' = <<>> /\ cache' = store'
    BY <1>4 DEF Restart
  <2> QED BY <2>1 DEF Lagging
<1>5. CASE Deliver
  BY <1>5, DeliverLagging
<1>6. ASSUME NEW r \in Roles, RetryDue(r) PROVE Lagging'
  BY <1>1, <1>6 DEF RetryDue
<1>7. CASE enqueue \/ UNCHANGED vars
  BY <1>1, <1>7 DEF enqueue, vars
<1>8. ASSUME NEW w \in Workers, GetKey(w) \/ GetRole(w) \/ ListSelector(w) PROVE Lagging'
  BY <1>1, <1>8 DEF GetKey, GetRole, ListSelector
<1> QED BY <1>2, <1>3, <1>4, <1>5, <1>6, <1>7, <1>8 DEF Next, Work

(* With no event on its way, the cache is the store.                       *)
LEMMA CacheIsStore ==
  ASSUME TypeOK, Lagging, watch = <<>>
  PROVE  cache = store
<1>1. \A r \in Roles : cache[r] = store[r]
  <2>1. Len(watch) = 0
    OBVIOUS
  <2>2. \A i \in 1..Len(watch) : FALSE
    BY <2>1
  <2> QED BY <2>2 DEF Lagging
<1> QED BY <1>1 DEF TypeOK

(* A write that tells the informer nothing changes nothing.                *)
LEMMA SilentWrite ==
  ASSUME TypeOK, NEW r \in Roles, NEW v \in RoleObject, Write(r, v), watch' = <<>>
  PROVE  v = store[r] /\ store' = store /\ watch' = watch
<1>1. v = store[r]
  <2> SUFFICES ASSUME v # store[r] PROVE FALSE
    OBVIOUS
  <2> DEFINE E == [role : Roles, value : RoleObject]
             e == [role |-> r, value |-> v]
  <2>1. e \in E /\ watch \in Seq(E)
    BY DEF TypeOK
  <2>2. watch' = Append(watch, e)
    BY DEF Write
  <2> HIDE DEF E, e
  <2> QED BY <2>1, <2>2, AppendProperties
<1> QED BY <1>1 DEF Write, TypeOK

(* A worker begins with no rules.                                          *)
LEMMA NoRulesStep == TypeOK /\ NoRulesYet /\ [Next]_vars => NoRulesYet'
<1> SUFFICES ASSUME TypeOK, NoRulesYet, [Next]_vars PROVE NoRulesYet'
  OBVIOUS
<1>1. ASSUME UNCHANGED worker PROVE NoRulesYet'
  BY <1>1 DEF NoRulesYet, Busy
<1>2. ASSUME NEW w \in Workers, NEW x, worker' = [worker EXCEPT ![w] = x],
             x.busy /\ x.at = 0 => x.rules = <<>>
      PROVE  NoRulesYet'
  <2>1. worker'[w] = x /\ \A v \in Workers \ {w} : worker'[v] = worker[v]
    BY <1>2 DEF TypeOK
  <2> QED BY <1>2, <2>1 DEF NoRulesYet, Busy
<1>3. CASE Restart
  BY <1>3 DEF Restart, NoRulesYet, Busy, Idle
<1>4. ASSUME NEW w \in Workers, GetKey(w) PROVE NoRulesYet'
  <2>1. PICK k \in Roles : worker' = [worker EXCEPT ![w] =
             [busy |-> TRUE, key |-> k, at |-> 0, shared |-> Absent, rules |-> <<>>]]
    BY <1>4 DEF GetKey, TypeOK
  <2> DEFINE x == [busy |-> TRUE, key |-> k, at |-> 0, shared |-> Absent, rules |-> <<>>]
  <2>2. x.rules = <<>> /\ worker' = [worker EXCEPT ![w] = x]
    BY <2>1
  <2> HIDE DEF x
  <2> QED BY <1>2, <2>2
<1>5. ASSUME NEW w \in Workers, GetRole(w) PROVE NoRulesYet'
  <2>1. worker[w] \in WorkerBusy
    BY <1>5, BusyWorker DEF GetRole
  <2> DEFINE role == cache[worker[w].key]
             x == IF role.agg THEN [worker[w] EXCEPT !.at = 1, !.shared = role] ELSE Idle
  <2>2. ~x.busy \/ x.at = 1
    BY <2>1 DEF WorkerBusy, Idle
  <2>3. worker' = [worker EXCEPT ![w] = x]
    BY <1>5 DEF GetRole
  <2>4. x.busy /\ x.at = 0 => x.rules = <<>>
    BY <2>2
  <2> HIDE DEF x
  <2> QED BY <1>2, <2>3, <2>4
<1>6. ASSUME NEW w \in Workers, ListSelector(w) PROVE NoRulesYet'
  <2>1. worker[w] \in WorkerBusy /\ worker[w].at \in Nat
    BY <1>6, BusyWorker DEF ListSelector
  <2>2. worker'[w].at = worker[w].at + 1 /\ \A v \in Workers \ {w} : worker'[v] = worker[v]
    BY <1>6, <2>1 DEF ListSelector, TypeOK, WorkerBusy
  <2> QED BY <2>1, <2>2 DEF NoRulesYet, Busy
<1>7. ASSUME NEW w \in Workers, ApplyClusterRoles(w) PROVE NoRulesYet'
  <2>1. worker' = [worker EXCEPT ![w] = Idle] /\ ~Idle.busy
    BY <1>7, ApplyWrites DEF Idle
  <2> QED BY <1>2, <2>1
<1>8. ASSUME NEW r \in Roles, Edit(r) \/ RetryDue(r) PROVE NoRulesYet'
  BY <1>1, <1>8 DEF Edit, RetryDue
<1>9. CASE Deliver \/ enqueue \/ UNCHANGED vars
  BY <1>1, <1>9 DEF Deliver, enqueue, vars
<1> QED BY <1>3, <1>4, <1>5, <1>6, <1>7, <1>8, <1>9 DEF Next, Work

(* A worker that does nothing keeps what it has while the cache stands.    *)
LEMMA FreshStays ==
  ASSUME NEW v \in Workers, NEW r \in Roles, Fresh(v, r), worker'[v] = worker[v], cache' = cache
  PROVE  Fresh(v, r)'
BY DEF Fresh, Busy

(* The values of the loop over the selectors, one List after the other.    *)
LEMMA AggregatingValues ==
  ASSUME NEW roles \in [Roles -> RoleObject], NEW key \in Roles
  PROVE  /\ Len(Selectors[key]) \in Nat /\ Aggregating(roles, key)[0] = <<>>
         /\ \A n \in 1..Len(Selectors[key]) : Aggregating(roles, key)[n] =
              AddMatching(Aggregating(roles, key)[n - 1], roles, key, Selectors[key][n])
<1>1. PICK f \in [0..Len(Selectors[key]) -> Seq(Rules)] :
        /\ f[0] = <<>> /\ Aggregating(roles, key) = f
        /\ \A n \in 1..Len(Selectors[key]) : f[n] = AddMatching(f[n - 1], roles, key, Selectors[key][n])
  BY AggregatingLoop, Zenon
<1>2. Len(Selectors[key]) \in Nat
  BY AggregationAssumption DEF AggregationAssumption
<1> QED BY <1>1, <1>2

(* A worker that takes a role from the queue works on it as it will be.    *)
LEMMA GetKeyFresh ==
  ASSUME TypeOK, NEW w \in Workers, GetKey(w), NEW r \in Roles, Settled(r)
  PROVE  Settled(r)'
<1>1. PICK k \in dirty :
        /\ dirty' = dirty \ {k}
        /\ worker' = [worker EXCEPT ![w] =
             [busy |-> TRUE, key |-> k, at |-> 0, shared |-> Absent, rules |-> <<>>]]
  BY DEF GetKey
<1>2. cache' = cache /\ retry' = retry /\ owners' = owners /\ ~Busy(w)
  BY DEF GetKey
<1>3. /\ worker'[w] = [busy |-> TRUE, key |-> k, at |-> 0, shared |-> Absent, rules |-> <<>>]
      /\ \A v \in Workers \ {w} : worker'[v] = worker[v]
  BY <1>1 DEF TypeOK
<1>4. CASE r = k
  <2>1. Fresh(w, r)'
    BY <1>3, <1>4 DEF Fresh, Busy
  <2> QED BY <2>1 DEF Settled
<1>5. CASE r \in dirty \cup retry /\ r # k
  BY <1>1, <1>2, <1>5 DEF Settled
<1>6. ASSUME NEW v \in Workers, Fresh(v, r) PROVE Settled(r)'
  <2>1. v # w
    BY <1>2, <1>6 DEF Fresh
  <2>2. Fresh(v, r)'
    BY <1>2, <1>3, <1>6, <2>1, FreshStays
  <2> QED BY <2>2 DEF Settled
<1>7. CASE \/ cache[r].rules = Aggregate(cache, r)
           \/ Aggregate(cache, r) = <<>> /\ "users" \in owners[r]
  BY <1>2, <1>7 DEF Settled
<1> QED BY <1>4, <1>5, <1>6, <1>7 DEF Settled

(* What the other workers and the queue hold stays when w goes on.         *)
LEMMA OthersStay ==
  ASSUME TypeOK, NEW w \in Workers, NEW x, worker' = [worker EXCEPT ![w] = x],
         cache' = cache, dirty' = dirty, retry \subseteq retry',
         NEW r \in Roles, Settled(r), Fresh(w, r) => Settled(r)',
         "users" \in owners[r] => "users" \in owners'[r]
  PROVE  Settled(r)'
<1>1. CASE r \in dirty \cup retry
  BY <1>1 DEF Settled
<1>2. CASE \/ cache[r].rules = Aggregate(cache, r)
           \/ Aggregate(cache, r) = <<>> /\ "users" \in owners[r]
  BY <1>2 DEF Settled
<1>3. ASSUME NEW v \in Workers \ {w}, Fresh(v, r) PROVE Settled(r)'
  <2>1. worker'[v] = worker[v]
    BY DEF TypeOK
  <2>2. Fresh(v, r)'
    BY <1>3, <2>1, FreshStays
  <2> QED BY <2>2 DEF Settled
<1> QED BY <1>1, <1>2, <1>3 DEF Settled

(* The first read of the role is what the cache says now.                  *)
LEMMA GetRoleFresh ==
  ASSUME TypeOK, NoRulesYet, NEW w \in Workers, GetRole(w),
         NEW r \in Roles, cache[r].agg, Settled(r)
  PROVE  Settled(r)'
<1> DEFINE role == cache[worker[w].key]
           x == IF role.agg THEN [worker[w] EXCEPT !.at = 1, !.shared = role] ELSE Idle
<1>1. /\ Busy(w) /\ worker[w].at = 0 /\ worker' = [worker EXCEPT ![w] = x]
      /\ cache' = cache /\ dirty' = dirty /\ retry' = retry /\ owners' = owners
  BY DEF GetRole
<1>2. ASSUME Fresh(w, r) PROVE Settled(r)'
  <2>1. worker[w] \in WorkerBusy /\ worker[w].key = r /\ worker[w].rules = <<>>
    BY <1>1, <1>2, BusyWorker DEF Fresh, NoRulesYet
  <2>2. worker'[w] = [worker[w] EXCEPT !.at = 1, !.shared = cache[r]]
    BY <1>1, <2>1 DEF TypeOK
  <2>3. /\ worker'[w].busy /\ worker'[w].key = r /\ worker'[w].at = 1
        /\ worker'[w].shared = cache[r] /\ worker'[w].rules = <<>>
    BY <2>1, <2>2 DEF WorkerBusy
  <2>4. Len(Selectors[r]) \in Nat /\ Aggregating(cache, r)[0] = <<>>
    BY AggregatingValues DEF TypeOK
  <2>5. 1 \in 1..(Len(Selectors[r]) + 1) /\ 1 - 1 = 0
    BY <2>4
  <2>6. Fresh(w, r)'
    BY <1>1, <2>3, <2>4, <2>5 DEF Fresh, Busy
  <2> QED BY <2>6 DEF Settled
<1> HIDE DEF x
<1> QED BY <1>1, <1>2, OthersStay

(* Each List keeps a worker up to date while the cache stands.             *)
LEMMA ListSelectorFresh ==
  ASSUME TypeOK, NEW w \in Workers, ListSelector(w), NEW r \in Roles, Settled(r)
  PROVE  Settled(r)'
<1> DEFINE key == worker[w].key
           more == AddMatching(worker[w].rules, cache, key, Selectors[key][worker[w].at])
           x == [worker[w] EXCEPT !.at = worker[w].at + 1, !.rules = more]
<1>1. /\ Busy(w) /\ cache' = cache /\ dirty' = dirty /\ retry' = retry /\ owners' = owners
      /\ worker[w].at \in 1..Len(Selectors[key])
  BY DEF ListSelector
<1>2. worker[w] \in WorkerBusy /\ key \in Roles /\ worker[w].at \in Nat
  BY <1>1, BusyWorker
<1>3. worker' = [worker EXCEPT ![w] = x]
  BY <1>2 DEF ListSelector, TypeOK, WorkerBusy
<1>4. ASSUME Fresh(w, r) PROVE Settled(r)'
  <2> DEFINE n == worker[w].at
  <2>1. key = r /\ n # 0 /\ n \in 1..Len(Selectors[r])
    BY <1>1, <1>2, <1>4, AggregatingValues DEF Fresh, TypeOK
  <2>2. worker[w].shared = cache[r] /\ worker[w].rules = Aggregating(cache, r)[n - 1]
    BY <1>4, <2>1 DEF Fresh
  <2>3. Aggregating(cache, r)[n] = more /\ Len(Selectors[r]) \in Nat
    BY <2>1, <2>2, AggregatingValues DEF TypeOK
  <2>4. worker'[w] = x
    BY <1>3 DEF TypeOK
  <2> HIDE DEF more
  <2>5. /\ worker'[w].busy /\ worker'[w].key = r /\ worker'[w].at = n + 1
        /\ worker'[w].shared = cache[r] /\ worker'[w].rules = more
    BY <1>2, <2>1, <2>2, <2>4 DEF WorkerBusy
  <2>6. n + 1 \in 1..(Len(Selectors[r]) + 1) /\ (n + 1) - 1 = n
    BY <2>1, <2>3
  <2> HIDE DEF n
  <2>7. Fresh(w, r)'
    BY <1>1, <2>3, <2>5, <2>6 DEF Fresh, Busy
  <2> QED BY <2>7 DEF Settled
<1> HIDE DEF x
<1> QED BY <1>1, <1>3, <1>4, OthersStay

(* A worker that is done with a role as it is now found its rules right,   *)
(* queued it again or told the informer of new ones.                       *)
LEMMA ApplyFresh ==
  ASSUME TypeOK, Lagging, NEW w \in Workers, ApplyClusterRoles(w), watch' = <<>>,
         NEW r \in Roles, watch = <<>> => Settled(r)
  PROVE  Settled(r)'
<1>1. /\ Computed(w) /\ Busy(w) /\ worker' = [worker EXCEPT ![w] = Idle]
      /\ cache' = cache /\ dirty' = dirty /\ retry \subseteq retry'
      /\ UNCHANGED <<store, owners, watch>> \/ Apply(w)
      /\ Apply(w) => Write(worker[w].key, Applied(w))
      /\ \/ worker[w].rules = worker[w].shared.rules
         \/ Apply(w)
         \/ worker[w].key \in retry'
  BY ApplyWrites
<1>2. worker[w].key \in Roles /\ worker[w].at \in Nat /\ Applied(w) \in RoleObject
  BY <1>1, BusyWorker, AppliedType
<1>3. watch = <<>>
  BY <1>1, <1>2, SilentWrite
<1>4. cache = store
  BY <1>3, CacheIsStore
<1>6. Apply(w) => Applied(w) = store[worker[w].key]
  BY <1>1, <1>2, SilentWrite
<1>7. "users" \in owners[r] => "users" \in owners'[r]
  BY <1>1, <1>6, SilentApply
<1>5. ASSUME Fresh(w, r) PROVE Settled(r)'
  <2>1. worker[w].key = r /\ Len(Selectors[r]) \in Nat
    BY <1>5, AggregatingValues DEF Fresh, TypeOK
  <2>2. worker[w].at > Len(Selectors[r])
    BY <1>1, <2>1 DEF Computed
  <2>3. worker[w].at = Len(Selectors[r]) + 1 /\ worker[w].at - 1 = Len(Selectors[r])
    BY <1>2, <1>5, <2>1, <2>2 DEF Fresh
  <2>4. worker[w].shared = cache[r] /\ worker[w].rules = Aggregate(cache, r)
    BY <1>5, <2>1, <2>2, <2>3 DEF Fresh, Aggregate
  <2>5. CASE worker[w].rules = worker[w].shared.rules
    BY <1>1, <2>4, <2>5 DEF Settled
  <2>6. CASE worker[w].key \in retry'
    BY <2>1, <2>6 DEF Settled
  <2>7. CASE Apply(w)
    <3>1. Applied(w) = cache[r]
      BY <1>4, <1>6, <2>1, <2>7
    <3>2. \/ cache[r].rules = Aggregate(cache, r)
          \/ Aggregate(cache, r) = <<>> /\ "users" \in owners[r]
      BY <1>1, <2>1, <2>4, <3>1, AppliedType
    <3> QED BY <1>1, <1>7, <3>2 DEF Settled
  <2> QED BY <1>1, <2>5, <2>6, <2>7
<1> QED BY <1>1, <1>3, <1>5, <1>7, OthersStay

(* Every step leaves the roles that need a look due for one.               *)
LEMMA DueStep == IInv /\ [Next]_vars => DueInv'
<1> SUFFICES ASSUME IInv, [Next]_vars, watch' = <<>>, notify' = 0,
                    NEW r \in Roles, cache'[r].agg
             PROVE  Settled(r)'
  BY DEF DueInv
<1>0. TypeOK /\ Lagging /\ NoRulesYet /\ DueInv
  BY DEF IInv
<1>1. watch = <<>> /\ notify = 0 /\ cache' = cache => cache[r].agg /\ Settled(r)
  BY <1>0 DEF DueInv
<1>2. ASSUME NEW k \in Roles, Edit(k) PROVE FALSE
  <2>1. PICK v \in RoleObject : v # store[k] /\ Write(k, v)
    BY <1>2, AggregationAssumption DEF Edit, AggregationAssumption
  <2> QED BY <1>0, <2>1, SilentWrite
<1>3. ASSUME NEW k \in Roles, RetryDue(k) PROVE Settled(r)'
  <2>1. /\ watch = <<>> /\ notify = 0 /\ cache' = cache /\ worker' = worker
        /\ owners' = owners /\ dirty \cup retry = dirty' \cup retry'
    BY <1>3 DEF RetryDue
  <2>2. ASSUME NEW v \in Workers, Fresh(v, r) PROVE Fresh(v, r)'
    BY <2>1, <2>2, FreshStays
  <2> QED BY <1>1, <2>1, <2>2 DEF Settled
<1>4. CASE Deliver
  <2>1. notify' = notify + 1 /\ notify \in Nat
    BY <1>0, <1>4 DEF Deliver, TypeOK
  <2> QED BY <2>1
<1>5. CASE enqueue
  <2>1. r \in dirty'
    BY <1>5 DEF enqueue, ToQueue
  <2> QED BY <2>1 DEF Settled
<1>6. CASE Restart
  <2>1. cache' = store /\ notify' = Cardinality(Present(store)) /\ store \in [Roles -> RoleObject]
    BY <1>0, <1>6 DEF Restart, TypeOK
  <2> QED BY <2>1, PresentCount
<1>7. ASSUME NEW w \in Workers, GetKey(w) PROVE Settled(r)'
  <2>1. watch = <<>> /\ notify = 0 /\ cache' = cache
    BY <1>7 DEF GetKey
  <2> QED BY <1>0, <1>1, <1>7, <2>1, GetKeyFresh
<1>8. ASSUME NEW w \in Workers, GetRole(w) PROVE Settled(r)'
  <2>1. watch = <<>> /\ notify = 0 /\ cache' = cache
    BY <1>8 DEF GetRole
  <2> QED BY <1>0, <1>1, <1>8, <2>1, GetRoleFresh
<1>9. ASSUME NEW w \in Workers, ListSelector(w) PROVE Settled(r)'
  <2>1. watch = <<>> /\ notify = 0 /\ cache' = cache
    BY <1>9 DEF ListSelector
  <2> QED BY <1>0, <1>1, <1>9, <2>1, ListSelectorFresh
<1>10. ASSUME NEW w \in Workers, ApplyClusterRoles(w) PROVE Settled(r)'
  <2>1. notify = 0 /\ cache' = cache
    BY <1>10, ApplyWrites
  <2> QED BY <1>0, <1>1, <1>10, <2>1, ApplyFresh
<1>11. CASE UNCHANGED vars
  <2>1. /\ watch = <<>> /\ notify = 0 /\ cache' = cache /\ worker' = worker
        /\ dirty' = dirty /\ retry' = retry /\ owners' = owners
    BY <1>11 DEF vars
  <2>2. ASSUME NEW v \in Workers, Fresh(v, r) PROVE Fresh(v, r)'
    BY <2>1, <2>2, FreshStays
  <2> QED BY <1>1, <2>1, <2>2 DEF Settled
<1> QED BY <1>2, <1>3, <1>4, <1>5, <1>6, <1>7, <1>8, <1>9, <1>10, <1>11 DEF Next, Work

(* The invariant is inductive.                                             *)
LEMMA Inductive == IInv /\ [Next]_vars => IInv'
BY TypeStep, LaggingStep, NoRulesStep, DueStep DEF IInv

(* The invariant always holds.                                             *)
LEMMA Invariance == Spec => []IInv
BY InitIInv, Inductive, PTL DEF Spec

(* The controller's state has its type, and the work queue never hands a   *)
(* role to two workers of syncClusterRole at a time.                       *)
THEOREM TypeCorrect == Spec => []TypeOK
<1>1. IInv => TypeOK
  BY DEF IInv
<1> QED BY <1>1, Invariance, PTL

(* At rest, nothing is left to explain a role that lacks its rules, unless *)
(* there are none for it and users own what it has.                        *)
LEMMA AtRest ==
  ASSUME IInv, Quiet, NEW r \in Roles, store[r].agg
  PROVE  \/ store[r].rules = Aggregate(store, r)
         \/ Aggregate(store, r) = <<>> /\ "users" \in owners[r]
<1>1. cache = store
  BY CacheIsStore DEF IInv, Quiet
<1>2. \A w \in Workers : ~Busy(w)
  BY DEF Quiet, Processing
<1>3. Settled(r)
  BY <1>1 DEF IInv, DueInv, Quiet
<1> QED BY <1>1, <1>2, <1>3 DEF Settled, Fresh, Quiet

(* The same in terms of what the roles below grant.                        *)
LEMMA AtRestUnion ==
  ASSUME IInv, Quiet, NEW r \in Roles, store[r].agg, ~Kept(r)
  PROVE  ToSet(store[r].rules) = RulesBelow(store, r) /\ IsInjective(store[r].rules)
<1>1. /\ ToSet(Aggregate(store, r)) = RulesBelow(store, r)
      /\ IsInjective(Aggregate(store, r))
  BY AggregateIsUnion DEF IInv, TypeOK
<1>2. Aggregate(store, r) = <<>> => RulesBelow(store, r) = {}
  BY <1>1 DEF ToSet
<1>3. store[r].rules = Aggregate(store, r)
  BY <1>2, AtRest DEF Kept
<1> QED BY <1>1, <1>3

(* When the controller has nothing left to do, every aggregated role has   *)
(* the rules syncClusterRole computes from the roles in the store, or      *)
(* keeps its owner's where these are none: events in flight, stale reads,  *)
(* failed writes and restarts lose no change.                              *)
THEOREM RestMeansAggregated == Spec => []QuietMeansAggregated
<1>1. IInv => QuietMeansAggregated
  BY AtRest DEF QuietMeansAggregated
<1> QED BY <1>1, Invariance, PTL

(* At rest an aggregated role grants exactly what the roles that its       *)
(* selectors match grant, each rule once, or is left to its owner.         *)
THEOREM RestMeansUnion == Spec => []QuietMeansUnion
<1>1. IInv => QuietMeansUnion
  BY AtRestUnion DEF QuietMeansUnion
<1> QED BY <1>1, Invariance, PTL

(* At rest, and if no role aggregates itself, every filled role grants     *)
(* what the roles at the bottom grant: syncClusterRole leaves no rule      *)
(* behind in a chain of aggregated roles.                                  *)
THEOREM RestMeansGranted == Spec => []QuietMeansGranted
<1>1. IInv => QuietMeansGranted
  <2> SUFFICES ASSUME IInv, Quiet, Acyclic(store) PROVE GrantedFromBelow
    BY DEF QuietMeansGranted
  <2>1. store \in [Roles -> RoleObject]
    BY DEF IInv, TypeOK
  <2>2. Filled \in SUBSET {r \in Roles : store[r].agg}
    BY DEF Filled
  <2>3. \A r \in Filled : ToSet(store[r].rules) = RulesBelow(store, r)
    BY AtRestUnion DEF Filled
  <2>4. \A r \in Roles : Granted(Filled, store)[r] = ToSet(store[r].rules)
    BY <2>1, <2>2, <2>3, LayersReachTheBottom
  <2> QED BY <2>2, <2>4 DEF GrantedFromBelow
<1> QED BY <1>1, Invariance, PTL
===============================================================================
