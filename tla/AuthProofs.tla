------------------------------ MODULE AuthProofs ------------------------------
(* Proofs about Auth: an administrator remains, a refresh token is exchanged *)
(* once and a revocation is final, for any number of accounts, sessions,     *)
(* callers, requests, failed writes and crashes.                             *)
EXTENDS Auth, FiniteSetTheorems, TLAPS

(* The types.                                                              *)

AccountT == [in : BOOLEAN, class : {"admin", "data"}, pass : Nat, dis : BOOLEAN,
             totp : Nat, pend : Nat, proven : BOOLEAN]
FamT == [user : Users \cup {"none"}, cur : 0..MaxGen, prev : 0..MaxGen,
         revoked : BOOLEAN, expired : BOOLEAN]
StoreT == [acc : [Users -> AccountT], fam : [Fams -> FamT]]
Ops == {"none", "login", "password", "totpoff", "refresh", "logout", "confirm", "update",
        "create", "delete", "revoke", "enable", "regenerate"}
Ats == Ops \cup {"idle", "hash", "account", "sessions", "owner", "pending", "class", "disabled"}
Classes == {"", "admin", "data"}
Switches == {"", "on", "off"}
RequestT == [op : Ops, at : Ats, u : Users, pw : Nat, code : Nat, tok : Token,
             class : Classes, dis : Switches, copy : AccountT]

Typed ==
  /\ up \in BOOLEAN /\ mem \in StoreT /\ disk \in StoreT
  /\ req \in [Callers -> RequestT]
  /\ handed \subseteq Token /\ uses \in [Token -> Nat]
  /\ ended \subseteq Fams /\ dropped \subseteq Fams

(* The parts of the invariant.  A store is looked at together with the      *)
(* tokens that callers know, the exchanges made and the families ended.     *)

Admins(m) == {u \in Users : Enabled(m.acc[u])}

AdminInv ==
  /\ up => Admins(mem) # {}
  /\ disk # NoFile => Admins(disk) # {}

\* Families a token was handed out of.
Families(toks) == {t[1] : t \in toks}

\* Tokens that were handed out, or are about to be by a Refresh that has rotated.
Known(rs, hd) == hd \cup {rs[p].tok : p \in {q \in Callers : rs[q].at = "owner"}}

FamiliesOk(m, known, us, en) ==
  /\ \A f \in Fams : m.fam[f].revoked \/ m.fam[f].user \in Users
  /\ \A f \in en : m.fam[f].revoked
  /\ \A t \in Token : us[t] > 0 => m.fam[t[1]].revoked \/ t[2] < m.fam[t[1]].cur
  /\ \A t \in known : m.fam[t[1]] # NoFam => t[2] <= m.fam[t[1]].cur

\* The store has the family of a known token, unless it went with its account.
Kept(m, known, dr) == \A t \in known : m.fam[t[1]].cur # 0 \/ t[1] \in dr

\* A request with a token has it from an earlier answer.
RequestsOk(rs, hd) ==
  \A p \in Callers : rs[p].at \in {"refresh", "logout", "owner"} \/ rs[p].op \in {"refresh", "logout"}
                       => rs[p].tok[1] \in Families(hd)

UsesOk(us, hd) == \A t \in Token : us[t] <= 1 /\ (us[t] > 0 => t[1] \in Families(hd))

SessionInv ==
  /\ FamiliesOk(mem, Known(req, handed), uses, ended)
  /\ FamiliesOk(disk, Known(req, handed), uses, ended)
  /\ up => Kept(mem, Known(req, handed), dropped)
  /\ Kept(disk, Known(req, handed), dropped)
  /\ RequestsOk(req, handed)
  /\ UsesOk(uses, handed)

AuthInv == Typed /\ AdminInv /\ SessionInv
-----------------------------------------------------------------------------
(* The store's methods.                                                    *)

\* The count of enabled administrators is at least one exactly when there is one, and when u
\* is not the last one there is another (countEnabledAdminsLocked).
LEMMA AdminCount ==
  ASSUME NEW m, NEW u
  PROVE  /\ CountEnabledAdmins(m) >= 1 <=> Admins(m) # {}
         /\ Admins(m) # {} /\ ~ LastAdmin(m, u) => \E v \in Admins(m) : v # u \/ ~ Enabled(m.acc[u])
<1> DEFINE A == Admins(m)
<1>1. A \subseteq Users /\ IsFiniteSet(A)
  BY AccountsAssumption, FS_Subset DEF Admins
<1>2. CountEnabledAdmins(m) = Cardinality(A)
  BY DEF CountEnabledAdmins, Admins
<1>3. Cardinality(A) \in Nat
  BY <1>1, FS_CardinalityType
<1>4. Cardinality(A) = 0 <=> A = {}
  BY <1>1, FS_EmptySet
<1>5. ASSUME A # {}, ~ LastAdmin(m, u), Enabled(m.acc[u])
      PROVE  \E v \in A : v # u
  <2>1. Cardinality(A) > 1
    BY <1>2, <1>3, <1>5 DEF LastAdmin
  <2>2. Cardinality(A) # 1
    BY <1>3, <2>1
  <2> SUFFICES ASSUME A = {u} PROVE FALSE
    BY <1>5
  <2> QED BY <2>2, FS_Singleton
<1> QED BY <1>2, <1>3, <1>4, <1>5

\* The methods that change one account keep the type, the families and an administrator.
LEMMA AccountMethods ==
  ASSUME NEW m \in StoreT, NEW u \in Users, Admins(m) # {},
         NEW class \in {"admin", "data"}, NEW pass \in Nat, NEW secret \in Nat, NEW code \in Nat,
         NEW on \in BOOLEAN, NEW res,
         res \in {Create(m, u, class, pass), SetPassword(m, u, pass), SetClass(m, u, class),
                  SetDisabled(m, u, on), StageTOTP(m, u, secret, on), ConfirmTOTP(m, u, code),
                  DisableTOTP(m, u)}
  PROVE  res.m \in StoreT /\ res.m.fam = m.fam /\ Admins(res.m) # {}
<1>1. m.acc \in [Users -> AccountT] /\ m.acc[u] \in AccountT
  BY DEF StoreT
<1>2. ASSUME NEW a \in AccountT,
             Enabled(a) \/ ~ Enabled(m.acc[u]) \/ ~ LastAdmin(m, u)
      PROVE  LET m2 == [m EXCEPT !.acc[u] = a]
             IN  m2 \in StoreT /\ m2.fam = m.fam /\ Admins(m2) # {}
  <2> DEFINE m2 == [m EXCEPT !.acc[u] = a]
  <2>1. m2 \in StoreT /\ m2.fam = m.fam /\ m2.acc = [m.acc EXCEPT ![u] = a]
    BY <1>1 DEF StoreT
  <2>2. CASE Enabled(a)
    BY <1>1, <2>1, <2>2 DEF Admins
  <2>3. CASE ~ Enabled(m.acc[u])
    BY <1>1, <2>1, <2>3 DEF Admins
  <2>4. CASE ~ LastAdmin(m, u)
    <3>1. PICK v \in Admins(m) : v # u \/ ~ Enabled(m.acc[u])
      BY <2>4, AdminCount
    <3>2. v # u
      BY <3>1 DEF Admins
    <3> QED BY <1>1, <2>1, <3>1, <3>2 DEF Admins
  <2> QED BY <1>2, <2>1, <2>2, <2>3, <2>4
<1>3. CASE res = Create(m, u, class, pass)
  <2>1. Account(class, pass) \in AccountT
    BY DEF Account, AccountT, NoSecret
  <2>2. ~ m.acc[u].in => ~ Enabled(m.acc[u])
    BY DEF Enabled
  <2> QED BY <1>2, <1>3, <2>1, <2>2 DEF Create, Ok, Err
<1>4. CASE res = SetPassword(m, u, pass)
  <2>1. [m.acc[u] EXCEPT !.pass = pass] \in AccountT
    BY <1>1 DEF AccountT
  <2>2. Enabled([m.acc[u] EXCEPT !.pass = pass]) \/ ~ Enabled(m.acc[u])
    BY <1>1 DEF AccountT, Enabled
  <2> QED BY <1>2, <1>4, <2>1, <2>2 DEF SetPassword, Mutate, Ok, Err
<1>5. CASE res = SetClass(m, u, class)
  <2>1. [m.acc[u] EXCEPT !.class = class] \in AccountT
    BY <1>1 DEF AccountT
  <2>2. class = "admin" => Enabled([m.acc[u] EXCEPT !.class = class]) \/ ~ Enabled(m.acc[u])
    BY <1>1 DEF AccountT, Enabled
  <2> QED BY <1>2, <1>5, <2>1, <2>2 DEF SetClass, Mutate, Ok, Err
<1>6. CASE res = SetDisabled(m, u, on)
  <2>1. [m.acc[u] EXCEPT !.dis = on] \in AccountT
    BY <1>1 DEF AccountT
  <2>2. ~ on => Enabled([m.acc[u] EXCEPT !.dis = on]) \/ ~ Enabled(m.acc[u])
    BY <1>1 DEF AccountT, Enabled
  <2> QED BY <1>2, <1>6, <2>1, <2>2 DEF SetDisabled, Mutate, Ok, Err
<1>7. CASE res = StageTOTP(m, u, secret, on)
  <2>1. [m.acc[u] EXCEPT !.pend = secret] \in AccountT
    BY <1>1 DEF AccountT
  <2>2. Enabled([m.acc[u] EXCEPT !.pend = secret]) \/ ~ Enabled(m.acc[u])
    BY <1>1 DEF AccountT, Enabled
  <2> QED BY <1>2, <1>7, <2>1, <2>2 DEF StageTOTP, Mutate, Ok, Err
<1>8. CASE res = ConfirmTOTP(m, u, code)
  <2> DEFINE a == [m.acc[u] EXCEPT !.totp = m.acc[u].pend, !.pend = NoSecret,
                                   !.proven = (code = m.acc[u].pend)]
  <2>1. a \in AccountT
    BY <1>1 DEF AccountT, NoSecret
  <2>2. Enabled(a) \/ ~ Enabled(m.acc[u])
    BY <1>1 DEF AccountT, Enabled
  <2> QED BY <1>2, <1>8, <2>1, <2>2 DEF ConfirmTOTP, Mutate, Ok, Err
<1>9. CASE res = DisableTOTP(m, u)
  <2> DEFINE a == [m.acc[u] EXCEPT !.totp = NoSecret, !.pend = NoSecret, !.proven = TRUE]
  <2>1. a \in AccountT
    BY <1>1 DEF AccountT, NoSecret
  <2>2. Enabled(a) \/ ~ Enabled(m.acc[u])
    BY <1>1 DEF AccountT, Enabled
  <2> QED BY <1>2, <1>9, <2>1, <2>2 DEF DisableTOTP, Mutate, Ok, Err
<1> QED BY <1>3, <1>4, <1>5, <1>6, <1>7, <1>8, <1>9
\* NewFamily adds a family under a name that no token is known for.
LEMMA NewFamilyStore ==
  ASSUME NEW m \in StoreT, NEW f \in Fams, NEW u \in Users
  PROVE  LET m2 == NewFamily(m, f, u).m
         IN  /\ NewFamily(m, f, u).ok /\ m2 \in StoreT /\ m2.acc = m.acc
             /\ m2.fam = [m.fam EXCEPT ![f] = NewFam(u)]
<1>1. NewFam(u) \in FamT
  BY AccountsAssumption DEF NewFam, FamT
<1> QED BY <1>1 DEF NewFamily, Ok, StoreT

\* Rotate moves a live family to its next token, or revokes it.
LEMMA RotateStore ==
  ASSUME NEW m \in StoreT, NEW t \in Token, t[2] < MaxGen
  PROVE  LET r == Rotate(m, t)
             fam == m.fam[t[1]]
         IN  /\ r.m \in StoreT /\ r.m.acc = m.acc
             /\ r.what \in {"theft", "rotated", "invalid"}
             /\ r.what = "theft" => r.m.fam = [m.fam EXCEPT ![t[1]] = [fam EXCEPT !.revoked = TRUE]]
             /\ r.what = "rotated" => /\ ~ fam.revoked /\ fam.cur = t[2]
                                      /\ r.m.fam = [m.fam EXCEPT ![t[1]] = Rotated(fam)]
<1> DEFINE fam == m.fam[t[1]]
           dead == [m EXCEPT !.fam[t[1]].revoked = TRUE]
           next == [m EXCEPT !.fam[t[1]] = Rotated(@)]
<1>1. t[1] \in Fams /\ t[2] \in 1..MaxGen /\ fam \in FamT
  BY DEF Token, StoreT
<1>2. [fam EXCEPT !.revoked = TRUE] \in FamT
  BY <1>1 DEF FamT
<1>3. dead \in StoreT /\ dead.acc = m.acc
      /\ dead.fam = [m.fam EXCEPT ![t[1]] = [fam EXCEPT !.revoked = TRUE]]
  BY <1>1, <1>2 DEF StoreT
<1>4. ASSUME fam.cur = t[2]
      PROVE  next \in StoreT /\ next.acc = m.acc /\ next.fam = [m.fam EXCEPT ![t[1]] = Rotated(fam)]
  <2>1. fam.cur + 1 \in 0..MaxGen
    BY <1>1, <1>4, AccountsAssumption
  <2>2. Rotated(fam) \in FamT
    BY <1>1, <2>1 DEF Rotated, FamT
  <2> QED BY <1>1, <2>2 DEF StoreT
<1>5. CASE ~ fam.revoked /\ fam.prev = t[2]
  <2>1. Rotate(m, t) = [ok |-> FALSE, what |-> "theft", m |-> dead]
    BY <1>5 DEF Rotate
  <2> HIDE DEF dead
  <2> QED BY <1>3, <2>1
<1>6. CASE ~ fam.revoked /\ fam.prev # t[2] /\ fam.cur = t[2] /\ ~ fam.expired
  <2>1. Rotate(m, t) = [ok |-> TRUE, what |-> "rotated", m |-> next]
    BY <1>6 DEF Rotate
  <2> HIDE DEF next
  <2> QED BY <1>4, <1>6, <2>1
<1>7. CASE fam.revoked \/ (fam.prev # t[2] /\ ~ (fam.cur = t[2] /\ ~ fam.expired))
  <2>1. Rotate(m, t) = [ok |-> FALSE, what |-> "invalid", m |-> m]
    BY <1>7 DEF Rotate
  <2> QED BY <2>1
<1> QED BY <1>5, <1>6, <1>7

\* A store that revokes more: accounts as before, families as before or revoked.
Revokes(m, m2) ==
  /\ m2 \in StoreT /\ m2.acc = m.acc
  /\ \A f \in Fams : m2.fam[f] \in {m.fam[f], [m.fam[f] EXCEPT !.revoked = TRUE]}

\* RevokeByToken revokes the family a current or previous token is of.
LEMMA RevokeByTokenStore ==
  ASSUME NEW m \in StoreT, NEW t \in Token
  PROVE  LET r == RevokeByToken(m, t)
         IN  /\ r.ok /\ Revokes(m, r.m)
             /\ t[2] \in {m.fam[t[1]].cur, m.fam[t[1]].prev} => r.m.fam[t[1]].revoked
<1> DEFINE dead == [m.fam[t[1]] EXCEPT !.revoked = TRUE]
           m2 == [m EXCEPT !.fam[t[1]].revoked = TRUE]
<1>1. t[1] \in Fams /\ m.fam[t[1]] \in FamT
  BY DEF Token, StoreT
<1>2. dead \in FamT /\ dead.revoked
  BY <1>1 DEF FamT
<1>3. m2 \in StoreT /\ m2.acc = m.acc /\ m2.fam = [m.fam EXCEPT ![t[1]] = dead]
  BY <1>1, <1>2 DEF StoreT
<1>4. Revokes(m, m2) /\ m2.fam[t[1]].revoked
  <2> HIDE DEF m2
  <2> QED BY <1>1, <1>2, <1>3 DEF Revokes, StoreT
<1>5. Revokes(m, m)
  BY DEF Revokes
<1> QED BY <1>4, <1>5 DEF RevokeByToken, Ok

\* RevokeAllForUser revokes the families of the account.
LEMMA RevokeAllStore ==
  ASSUME NEW m \in StoreT, NEW u
  PROVE  LET r == RevokeAllForUser(m, u)
         IN  /\ r.ok /\ Revokes(m, r.m)
             /\ \A f \in Fams : m.fam[f].user = u => r.m.fam[f].revoked
<1> DEFINE F == [f \in Fams |-> [m.fam[f] EXCEPT !.revoked = @ \/ m.fam[f].user = u]]
           m2 == [m EXCEPT !.fam = F]
<1>1. ASSUME NEW f \in Fams
      PROVE  /\ F[f] \in FamT
             /\ F[f] \in {m.fam[f], [m.fam[f] EXCEPT !.revoked = TRUE]}
             /\ m.fam[f].user = u => F[f].revoked
  <2>1. m.fam[f] \in FamT
    BY DEF StoreT
  <2>2. CASE m.fam[f].user = u
    BY <2>1, <2>2 DEF FamT
  <2>3. CASE m.fam[f].user # u
    <3>1. F[f] = [m.fam[f] EXCEPT !.revoked = @]
      BY <2>1, <2>3 DEF FamT
    <3> QED BY <2>1, <2>3, <3>1 DEF FamT
  <2> QED BY <2>2, <2>3
<1>2. F \in [Fams -> FamT]
  BY <1>1
<1>3. m2 \in StoreT /\ m2.acc = m.acc /\ m2.fam = F
  <2> HIDE DEF F
  <2> QED BY <1>2 DEF StoreT
<1>4. Revokes(m, m2) /\ \A f \in Fams : m.fam[f].user = u => m2.fam[f].revoked
  <2> HIDE DEF m2, F
  <2> QED BY <1>1, <1>3 DEF Revokes
<1>5. RevokeAllForUser(m, u) = [ok |-> TRUE, m |-> m2]
  BY DEF RevokeAllForUser, Ok
<1> HIDE DEF m2
<1> QED BY <1>4, <1>5

\* The records of what is absent are typed.
LEMMA EmptyTyped == NoAccount \in AccountT /\ NoFam \in FamT /\ EmptyStore \in StoreT /\ NoFile = EmptyStore
<1>1. NoAccount \in AccountT
  BY DEF NoAccount, Account, AccountT, NoSecret
<1>2. NoFam \in FamT
  BY AccountsAssumption DEF NoFam, FamT
<1> QED BY <1>1, <1>2 DEF EmptyStore, NoFile, StoreT

\* Delete drops the account and its families, never the last administrator.
LEMMA DeleteStore ==
  ASSUME NEW m \in StoreT, NEW u \in Users, Admins(m) # {}, Delete(m, u).ok
  PROVE  LET m2 == Delete(m, u).m
         IN  /\ m2 \in StoreT /\ Admins(m2) # {}
             /\ \A f \in Fams : m2.fam[f] = IF m.fam[f].user = u THEN NoFam ELSE m.fam[f]
<1> DEFINE acc == [m.acc EXCEPT ![u] = NoAccount]
           fam == [f \in Fams |-> IF m.fam[f].user = u THEN NoFam ELSE m.fam[f]]
<1>1. m.acc[u].in /\ ~ LastAdmin(m, u) /\ Delete(m, u).m = [acc |-> acc, fam |-> fam]
  BY DEF Delete, Ok, Err
<1>2. NoAccount \in AccountT /\ NoFam \in FamT
  BY EmptyTyped
<1>3. acc \in [Users -> AccountT] /\ fam \in [Fams -> FamT]
  BY <1>2 DEF StoreT
<1>4. [acc |-> acc, fam |-> fam] \in StoreT
  BY <1>3 DEF StoreT
<1>5. PICK v \in Admins(m) : v # u \/ ~ Enabled(m.acc[u])
  BY <1>1, AdminCount
<1>6. v \in Users /\ v # u /\ Enabled(acc[v])
  BY <1>5 DEF Admins, StoreT
<1> QED BY <1>1, <1>4, <1>6 DEF Admins
-----------------------------------------------------------------------------
(* What the steps of requests have in common.                              *)

\* The tokens that are known are tokens, of families.
LEMMA KnownTyped ==
  ASSUME AuthInv
  PROVE  Known(req, handed) \subseteq Token /\ ended \subseteq Fams /\ \A t \in Token : t[1] \in Fams
BY DEF AuthInv, Typed, Known, RequestT, Token

\* What RevokedStays says of one step.
RevokedStep == \A t \in Token : t[1] \in ended => uses'[t] = uses[t]

\* A request that is about to hand out no token, and whose token, if any, was handed out.
Fit(r) == /\ r.at # "owner"
          /\ r.at \in {"refresh", "logout"} \/ r.op \in {"refresh", "logout"}
               => r.tok[1] \in Families(handed)

\* A call that only reads: the request goes on with r, which hands out no token.
LEMMA ReadsKeep ==
  ASSUME AuthInv, NEW p \in Callers, NEW r \in RequestT, Reads(p, r), Fit(r)
  PROVE  AuthInv' /\ RevokedStep
<1>1. req' = [req EXCEPT ![p] = r] /\ UNCHANGED <<up, mem, disk, handed, uses, ended, dropped>>
  BY DEF Reads, Goes
<1>2. req' \in [Callers -> RequestT] /\ \A q \in Callers : req'[q] = IF q = p THEN r ELSE req[q]
  BY <1>1 DEF AuthInv, Typed
<1>3. Known(req', handed') \subseteq Known(req, handed)
  BY <1>1, <1>2 DEF Known, Fit
<1>4. FamiliesOk(mem', Known(req', handed'), uses', ended') /\ FamiliesOk(disk', Known(req', handed'), uses', ended')
  BY <1>1, <1>3 DEF AuthInv, SessionInv, FamiliesOk
<1>5. RequestsOk(req', handed') /\ UsesOk(uses', handed')
  BY <1>1, <1>2 DEF AuthInv, SessionInv, RequestsOk, UsesOk, Fit
<1>6. Typed' /\ AdminInv'
  BY <1>1, <1>2 DEF AuthInv, Typed, AdminInv
<1>7. RevokedStep
  BY <1>1 DEF RevokedStep
<1>8. (up' => Kept(mem', Known(req', handed'), dropped')) /\ Kept(disk', Known(req', handed'), dropped')
  BY <1>1, <1>3 DEF AuthInv, SessionInv, Kept
<1> QED BY <1>4, <1>5, <1>6, <1>7, <1>8 DEF AuthInv, SessionInv

\* An idle request is typed and asks for nothing; so does a refused one.
LEMMA IdleTyped == Idle \in RequestT /\ Idle.at = "idle" /\ Idle.op = "none"
<1>1. <<1, 1>> \in Token
  BY AccountsAssumption DEF Token, Fams
<1> QED BY <1>1, EmptyTyped, AccountsAssumption DEF Idle, RequestT, Ops, Ats, Classes, Switches

LEMMA RefusedKeeps ==
  ASSUME AuthInv, NEW p \in Callers, Refused(p)
  PROVE  AuthInv' /\ RevokedStep
<1>1. Reads(p, Idle)
  BY DEF Refused, Reads
<1> QED BY <1>1, IdleTyped, ReadsKeep DEF Fit

\* A call that writes keeps the invariant when the store it makes would do as the store of
\* the callers as they are (the write fails) and as they will be (it does not).
LEMMA CommitKeeps ==
  ASSUME AuthInv, up, NEW p \in Callers, NEW m \in StoreT, NEW rs \in [Callers -> RequestT],
         NEW e, Commit(p, m, rs, e), e.hand \subseteq Token, e.end \subseteq Fams,
         e.drop \subseteq Fams, Admins(m) # {},
         RequestsOk(rs, handed),
         \A q \in Callers \ {p} : rs[q].at = "owner" => req[q].at = "owner" /\ rs[q].tok = req[q].tok,
         \A t \in e.use \cap Token : uses[t] = 0 /\ t[1] \in Families(handed) \ ended,
         FamiliesOk(m, Known(req, handed), uses, ended),
         FamiliesOk(m, Known(rs, handed \cup e.hand),
                    [t \in Token |-> uses[t] + IF t \in e.use THEN 1 ELSE 0], ended \cup e.end),
         Kept(m, Known(req, handed) \cup Known(rs, handed \cup e.hand), dropped \cup e.drop)
  PROVE  AuthInv' /\ RevokedStep
<1> DEFINE us == [t \in Token |-> uses[t] + IF t \in e.use THEN 1 ELSE 0]
<1>1. mem' = m /\ up' = up /\ dropped' = dropped \cup e.drop
  BY DEF Commit
<1>2. CASE /\ disk' = m /\ req' = rs /\ handed' = handed \cup e.hand
           /\ ended' = ended \cup e.end /\ uses' = us
  <2>1. us \in [Token -> Nat]
    BY DEF AuthInv, Typed
  <2>2. Typed'
    BY <1>1, <1>2, <2>1 DEF AuthInv, Typed
  <2>3. AdminInv'
    BY <1>1, <1>2 DEF AdminInv
  <2>4. Families(handed) \subseteq Families(handed')
    BY <1>2 DEF Families
  <2>5. RequestsOk(req', handed')
    BY <1>2, <2>4 DEF RequestsOk
  <2>6. UsesOk(us, handed)
    BY DEF AuthInv, Typed, SessionInv, UsesOk
  <2>7. UsesOk(uses', handed')
    BY <1>2, <2>4, <2>6 DEF UsesOk
  <2>8. FamiliesOk(m, Known(req', handed'), uses', ended')
    BY <1>2
  <2>9. RevokedStep
    BY <1>2 DEF RevokedStep, AuthInv, Typed
  <2>10. Kept(m, Known(req', handed'), dropped')
    BY <1>1, <1>2 DEF Kept
  <2> QED BY <1>1, <1>2, <2>2, <2>3, <2>5, <2>7, <2>8, <2>9, <2>10 DEF AuthInv, SessionInv
<1>3. CASE req' = [rs EXCEPT ![p] = Idle] /\ UNCHANGED <<disk, handed, uses, ended>>
  <2>1. req' \in [Callers -> RequestT] /\ \A q \in Callers : req'[q] = IF q = p THEN Idle ELSE rs[q]
    BY <1>3, IdleTyped
  <2>2. Typed' /\ AdminInv'
    BY <1>1, <1>3, <2>1 DEF AuthInv, Typed, AdminInv
  <2>3. Known(req', handed') \subseteq Known(req, handed)
    BY <1>3, <2>1, IdleTyped DEF Known
  <2>4. RequestsOk(req', handed')
    BY <1>3, <2>1, IdleTyped DEF RequestsOk
  <2>5. FamiliesOk(mem', Known(req', handed'), uses', ended') /\ FamiliesOk(disk', Known(req', handed'), uses', ended')
    BY <1>1, <1>3, <2>3 DEF AuthInv, SessionInv, FamiliesOk
  <2>6. Kept(mem', Known(req', handed'), dropped') /\ Kept(disk', Known(req', handed'), dropped')
    BY <1>1, <1>3, <2>3 DEF AuthInv, SessionInv, Kept
  <2> QED BY <1>3, <2>2, <2>4, <2>5, <2>6 DEF AuthInv, SessionInv, UsesOk, RevokedStep
<1> QED BY <1>2, <1>3 DEF Commit

\* A written change of accounts after which the request goes on without a token.
LEMMA AccountsKeep ==
  ASSUME AuthInv, up, NEW p \in Callers, NEW m \in StoreT, NEW r \in RequestT, Fit(r),
         Commit(p, m, Goes(p, r), Nothing), Admins(m) # {}, m.fam = mem.fam
  PROVE  AuthInv' /\ RevokedStep
<1> DEFINE rs == Goes(p, r)
           e == Nothing
           us == [t \in Token |-> uses[t] + IF t \in e.use THEN 1 ELSE 0]
<1>0. e.hand = {} /\ e.use = {} /\ e.end = {} /\ e.drop = {}
  BY DEF Nothing
<1>1. rs \in [Callers -> RequestT] /\ \A q \in Callers : rs[q] = IF q = p THEN r ELSE req[q]
  BY DEF AuthInv, Typed, Goes
<1>2. RequestsOk(rs, handed)
  BY <1>1 DEF AuthInv, SessionInv, RequestsOk, Fit
<1>3. FamiliesOk(m, Known(req, handed), uses, ended)
  BY DEF AuthInv, SessionInv, FamiliesOk
<1>4. Known(rs, handed \cup e.hand) \subseteq Known(req, handed)
  BY <1>0, <1>1 DEF Known, Fit
<1>5. us = uses
  BY <1>0 DEF AuthInv, Typed
<1>6. FamiliesOk(m, Known(rs, handed \cup e.hand), us, ended \cup e.end)
  BY <1>0, <1>3, <1>4, <1>5 DEF FamiliesOk
<1>7. \A q \in Callers \ {p} : rs[q].at = "owner" => req[q].at = "owner" /\ rs[q].tok = req[q].tok
  BY <1>1
<1>8. Commit(p, m, rs, e)
  OBVIOUS
<1>9. Kept(m, Known(req, handed) \cup Known(rs, handed \cup e.hand), dropped \cup e.drop)
  BY <1>4 DEF AuthInv, SessionInv, Kept
<1> HIDE DEF rs, e
<1> QED BY <1>0, <1>1, <1>2, <1>3, <1>6, <1>7, <1>8, <1>9, CommitKeeps

\* A written revocation; the families that end are revoked by it.
LEMMA RevokesKeep ==
  ASSUME AuthInv, up, NEW p \in Callers, NEW m, Revokes(mem, m), NEW end, end \subseteq Fams,
         \A f \in end : m.fam[f].revoked,
         Commit(p, m, Goes(p, Idle), [Nothing EXCEPT !.end = end])
  PROVE  AuthInv' /\ RevokedStep
<1> DEFINE rs == Goes(p, Idle)
           e == [Nothing EXCEPT !.end = end]
           us == [t \in Token |-> uses[t] + IF t \in e.use THEN 1 ELSE 0]
<1>0. e.hand = {} /\ e.use = {} /\ e.end = end /\ e.drop = {}
  BY DEF Nothing
<1>1. rs \in [Callers -> RequestT] /\ \A q \in Callers : rs[q] = IF q = p THEN Idle ELSE req[q]
  BY IdleTyped DEF AuthInv, Typed, Goes
<1>2. RequestsOk(rs, handed)
  BY <1>1, IdleTyped DEF AuthInv, SessionInv, RequestsOk
<1>3. m \in StoreT /\ Admins(m) # {}
  BY DEF AuthInv, AdminInv, Revokes, Admins
<1>4. \A f \in Fams : /\ m.fam[f].user = mem.fam[f].user /\ m.fam[f].cur = mem.fam[f].cur
                      /\ mem.fam[f].revoked => m.fam[f].revoked
                      /\ m.fam[f] # NoFam => mem.fam[f] # NoFam
  <2> SUFFICES ASSUME NEW f \in Fams
               PROVE  /\ m.fam[f].user = mem.fam[f].user /\ m.fam[f].cur = mem.fam[f].cur
                      /\ mem.fam[f].revoked => m.fam[f].revoked
                      /\ m.fam[f] # NoFam => mem.fam[f] # NoFam
    OBVIOUS
  <2>1. mem.fam[f] \in FamT /\ m.fam[f] \in {mem.fam[f], [mem.fam[f] EXCEPT !.revoked = TRUE]}
    BY DEF AuthInv, Typed, StoreT, Revokes
  <2>2. [NoFam EXCEPT !.revoked = TRUE] = NoFam
    <3>1. NoFam \in FamT /\ NoFam.revoked = TRUE
      BY EmptyTyped DEF NoFam
    <3> QED BY <3>1 DEF FamT
  <2> QED BY <2>1, <2>2 DEF FamT
<1>5. Known(req, handed) \subseteq Token
  BY KnownTyped
<1>6. FamiliesOk(m, Known(req, handed), uses, ended)
  BY <1>4, <1>5 DEF AuthInv, Typed, SessionInv, FamiliesOk, Token
<1>7. Known(rs, handed \cup e.hand) \subseteq Known(req, handed)
  BY <1>0, <1>1, IdleTyped DEF Known
<1>8. us = uses
  BY <1>0 DEF AuthInv, Typed
<1>9. FamiliesOk(m, Known(rs, handed \cup e.hand), us, ended \cup e.end)
  BY <1>0, <1>6, <1>7, <1>8 DEF FamiliesOk
<1>10. \A q \in Callers \ {p} : rs[q].at = "owner" => req[q].at = "owner" /\ rs[q].tok = req[q].tok
  BY <1>1
<1>11. Commit(p, m, rs, e)
  OBVIOUS
<1>12. Kept(m, Known(req, handed) \cup Known(rs, handed \cup e.hand), dropped \cup e.drop)
  <2> HIDE DEF rs, e
  <2> QED BY <1>4, <1>7, KnownTyped DEF AuthInv, SessionInv, Kept
<1> HIDE DEF rs, e
<1> QED BY <1>0, <1>1, <1>2, <1>3, <1>6, <1>9, <1>10, <1>11, <1>12, CommitKeeps
-----------------------------------------------------------------------------
(* The server's own steps.                                                 *)

\* The families of a store that bootstraps, and of one that is down.
LEMMA BootKeeps ==
  ASSUME AuthInv, Boot
  PROVE  AuthInv' /\ RevokedStep
<1>1. UNCHANGED <<req, handed, uses, ended, dropped>>
  BY DEF Boot
<1>2. mem' \in StoreT /\ Admins(mem') # {} /\ mem'.fam = disk.fam
  <2>1. CASE disk # NoFile
    BY <2>1 DEF Boot, AuthInv, Typed, AdminInv
  <2>2. CASE disk = NoFile
    <3>1. mem' = [EmptyStore EXCEPT !.acc[Admin] = Account("admin", 1)]
      <4>1. ~ EmptyStore.acc[Admin].in
        BY AccountsAssumption DEF EmptyStore, NoAccount, Account
      <4> QED BY <2>2, <4>1 DEF Boot, Create, Ok
    <3>2. Account("admin", 1) \in AccountT /\ Enabled(Account("admin", 1))
      BY DEF Account, AccountT, NoSecret, Enabled
    <3>3. /\ mem'.acc = [EmptyStore.acc EXCEPT ![Admin] = Account("admin", 1)]
          /\ mem'.fam = EmptyStore.fam /\ mem' \in StoreT
      BY <3>1, <3>2, EmptyTyped, AccountsAssumption DEF StoreT
    <3>4. Admin \in Admins(mem')
      BY <3>2, <3>3, EmptyTyped, AccountsAssumption DEF Admins, StoreT
    <3> QED BY <2>2, <3>3, <3>4, EmptyTyped
  <2> QED BY <2>1, <2>2
<1>3. disk' \in {disk, mem'} /\ up' \in BOOLEAN /\ (disk' = disk \/ Admins(disk') # {})
  BY <1>2 DEF Boot, AuthInv, Typed
<1>4. Typed' /\ AdminInv'
  BY <1>1, <1>2, <1>3 DEF AuthInv, Typed, AdminInv
<1>5. disk'.fam = disk.fam
  BY <1>2, <1>3
<1> QED BY <1>1, <1>2, <1>4, <1>5 DEF AuthInv, SessionInv, FamiliesOk, Kept, RevokedStep

LEMMA CrashKeeps ==
  ASSUME AuthInv, Crash
  PROVE  AuthInv' /\ RevokedStep
<1>1. /\ up' = FALSE /\ mem' = EmptyStore /\ req' = [p \in Callers |-> Idle]
      /\ UNCHANGED <<disk, handed, uses, ended, dropped>>
  BY DEF Crash
<1>2. Typed' /\ AdminInv'
  <2>1. req' \in [Callers -> RequestT] /\ mem' \in StoreT
    BY <1>1, EmptyTyped, IdleTyped
  <2>2. Typed'
    BY <1>1, <2>1 DEF AuthInv, Typed
  <2>3. AdminInv'
    BY <1>1 DEF AuthInv, AdminInv
  <2> QED BY <2>2, <2>3
<1>3. Known(req', handed') \subseteq Known(req, handed)
  BY <1>1, IdleTyped DEF Known
<1>4. FamiliesOk(disk', Known(req', handed'), uses', ended')
  BY <1>1, <1>3 DEF AuthInv, SessionInv, FamiliesOk
<1>5. Known(req', handed') \subseteq Token
  BY <1>3, KnownTyped
<1>6. \A f \in Fams : mem'.fam[f] = NoFam /\ NoFam.revoked
  BY <1>1 DEF EmptyStore, NoFam
<1>7. FamiliesOk(mem', Known(req', handed'), uses', ended')
  BY <1>1, <1>5, <1>6 DEF AuthInv, Typed, FamiliesOk, Token
<1>8. RequestsOk(req', handed') /\ UsesOk(uses', handed')
  BY <1>1, IdleTyped DEF AuthInv, SessionInv, RequestsOk, UsesOk
<1>9. Kept(disk', Known(req', handed'), dropped')
  BY <1>1, <1>3 DEF AuthInv, SessionInv, Kept
<1> QED BY <1>1, <1>2, <1>4, <1>7, <1>8, <1>9 DEF AuthInv, SessionInv, RevokedStep

\* A store like another but for the expiry of families; an absent one stays absent.
Older(m, m2) ==
  /\ m2 \in StoreT /\ m2.acc = m.acc
  /\ \A g \in Fams :
       /\ m.fam[g].revoked => m2.fam[g].revoked
       /\ m2.fam[g].user = m.fam[g].user /\ m2.fam[g].cur = m.fam[g].cur
       /\ m.fam[g] = NoFam => m2.fam[g] = NoFam

\* A family that expires is otherwise as it was.
LEMMA ExpireStore ==
  ASSUME NEW m \in StoreT, NEW f \in Fams, NEW m2, m2 = [m EXCEPT !.fam[f].expired = TRUE]
  PROVE  Older(m, m2)
<1> DEFINE fam == [m.fam[f] EXCEPT !.expired = TRUE]
<1>1. m.fam \in [Fams -> FamT] /\ m.fam[f] \in FamT
  BY DEF StoreT
<1>2. /\ fam \in FamT /\ fam.revoked = m.fam[f].revoked /\ fam.user = m.fam[f].user
      /\ fam.cur = m.fam[f].cur
      /\ m.fam[f] = NoFam => fam = NoFam
  <2>1. NoFam \in FamT /\ NoFam.expired = TRUE
    BY EmptyTyped DEF NoFam
  <2>2. m.fam[f].expired = TRUE => fam = m.fam[f]
    BY <1>1 DEF FamT
  <2> HIDE DEF NoFam
  <2> QED BY <1>1, <2>1, <2>2 DEF FamT
<1>3. m2.fam = [m.fam EXCEPT ![f] = fam] /\ m2 \in StoreT /\ m2.acc = m.acc
  BY <1>1, <1>2 DEF StoreT
<1> HIDE DEF fam
<1> QED BY <1>1, <1>2, <1>3 DEF Older

LEMMA ExpireKeeps ==
  ASSUME AuthInv, NEW f \in Fams, Expire(f)
  PROVE  AuthInv' /\ RevokedStep
<1>1. UNCHANGED <<up, req, handed, uses, ended, dropped>>
  BY DEF Expire
<1>2. Older(mem, mem') /\ Older(disk, disk')
  <2>1. mem \in StoreT /\ disk \in StoreT
    BY DEF AuthInv, Typed
  <2>2. Older(mem, mem)
    BY <2>1 DEF Older
  <2>3. Older(mem, [mem EXCEPT !.fam[f].expired = TRUE]) /\ Older(disk, [disk EXCEPT !.fam[f].expired = TRUE])
    BY <2>1, ExpireStore
  <2> QED BY <2>2, <2>3 DEF Expire
<1>3. disk = NoFile => disk' = NoFile
  <2> SUFFICES ASSUME disk = NoFile PROVE disk' = disk
    OBVIOUS
  <2>1. disk \in StoreT /\ disk.fam[f] = NoFam
    BY EmptyTyped DEF NoFile
  <2>2. [disk.fam[f] EXCEPT !.expired = TRUE] = disk.fam[f]
    <3>1. NoFam \in FamT /\ NoFam.expired = TRUE
      BY EmptyTyped DEF NoFam
    <3> QED BY <2>1, <3>1 DEF FamT
  <2>3. [disk.fam EXCEPT ![f] = disk.fam[f]] = disk.fam
    BY <2>1 DEF StoreT
  <2>4. disk' = [disk EXCEPT !.fam = [disk.fam EXCEPT ![f] = [disk.fam[f] EXCEPT !.expired = TRUE]]]
    BY DEF Expire
  <2> QED BY <2>1, <2>2, <2>3, <2>4 DEF StoreT
<1>4. Typed' /\ AdminInv'
  BY <1>1, <1>2, <1>3 DEF AuthInv, Typed, AdminInv, Admins, Older
<1>5. Known(req, handed) \subseteq Token
  BY KnownTyped
<1>6. ASSUME NEW m, NEW m2, Older(m, m2), FamiliesOk(m, Known(req, handed), uses, ended)
      PROVE  FamiliesOk(m2, Known(req, handed), uses, ended)
  BY <1>5, <1>6, KnownTyped DEF FamiliesOk, Older
<1>7. FamiliesOk(mem', Known(req, handed), uses, ended) /\ FamiliesOk(disk', Known(req, handed), uses, ended)
  BY <1>2, <1>6 DEF AuthInv, SessionInv
<1>8. (up' => Kept(mem', Known(req, handed), dropped)) /\ Kept(disk', Known(req, handed), dropped)
  BY <1>1, <1>2, KnownTyped DEF AuthInv, SessionInv, Kept, Older
<1> QED BY <1>1, <1>4, <1>7, <1>8 DEF AuthInv, SessionInv, RevokedStep
-----------------------------------------------------------------------------
(* The steps of requests.                                                  *)

\* Where a request is when it makes a step, and that it is typed.
LEMMA RequestTyped ==
  ASSUME AuthInv, NEW p \in Callers
  PROVE  /\ req[p] \in RequestT /\ mem \in StoreT
         /\ up => Admins(mem) # {}
         /\ req[p].at \in {"refresh", "logout", "owner"} \/ req[p].op \in {"refresh", "logout"}
              => req[p].tok[1] \in Families(handed)
BY DEF AuthInv, Typed, AdminInv, SessionInv, RequestsOk

\* A method on accounts, refused or followed by r.
LEMMA AccountMethodKeeps ==
  ASSUME AuthInv, up, NEW p \in Callers, NEW r \in RequestT, Fit(r),
         NEW u \in Users, NEW class \in {"admin", "data"}, NEW pass \in Nat,
         NEW secret \in Nat, NEW code \in Nat, NEW on \in BOOLEAN, NEW res,
         res \in {Create(mem, u, class, pass), SetPassword(mem, u, pass), SetClass(mem, u, class),
                  SetDisabled(mem, u, on), StageTOTP(mem, u, secret, on),
                  ConfirmTOTP(mem, u, code), DisableTOTP(mem, u)},
         Method(p, res, r, Nothing)
  PROVE  AuthInv' /\ RevokedStep
<1>1. res.m \in StoreT /\ res.m.fam = mem.fam /\ Admins(res.m) # {}
  BY RequestTyped, AccountMethods
<1>2. CASE Commit(p, res.m, Goes(p, r), Nothing)
  BY <1>1, <1>2, AccountsKeep
<1>3. CASE Refused(p)
  BY <1>3, RefusedKeeps
<1> QED BY <1>2, <1>3 DEF Method

\* The kinds of requests.
Checked(o, u, w, c) == [Idle EXCEPT !.op = o, !.at = "hash", !.u = u, !.pw = w, !.code = c]
Presents(o, t) == [Idle EXCEPT !.op = o, !.at = o, !.tok = t]
Confirms(u, c) == [Idle EXCEPT !.op = "confirm", !.at = "pending", !.u = u, !.code = c]
Updates(u, k, d) == [Idle EXCEPT !.op = "update", !.at = "class", !.u = u, !.class = k, !.dis = d]
Names(o, u) == [Idle EXCEPT !.op = o, !.at = o, !.u = u]

LEMMA NewKinds ==
  New = {Checked(o, u, w, c) : o \in {"login", "password", "totpoff"}, u \in Users, w \in Passwords, c \in Codes}
        \cup {Presents(o, t) : o \in {"refresh", "logout"}, t \in handed}
        \cup {Confirms(u, c) : u \in Users, c \in Codes}
        \cup {Updates(u, k, d) : u \in Users, k \in Classes, d \in Switches}
        \cup {Names(o, u) : o \in {"create", "delete", "revoke", "enable", "regenerate"}, u \in Users}
BY DEF New, Checked, Presents, Confirms, Updates, Names, Classes, Switches

\* What a request may be to begin with.
LEMMA NewTyped ==
  ASSUME AuthInv, NEW r \in New
  PROVE  r \in RequestT /\ Fit(r)
<1> DEFINE Fine(q) == /\ q \in RequestT /\ q.at \notin {"refresh", "logout", "owner"}
                   /\ q.op \notin {"refresh", "logout"}
           Credentials == {Checked(o, u, w, c) : o \in {"login", "password", "totpoff"}, u \in Users, w \in Passwords, c \in Codes}
           Tokens == {Presents(o, t) : o \in {"refresh", "logout"}, t \in handed}
           Codings == {Confirms(u, c) : u \in Users, c \in Codes}
           Changes == {Updates(u, k, d) : u \in Users, k \in Classes, d \in Switches}
           Namings == {Names(o, u) : o \in {"create", "delete", "revoke", "enable", "regenerate"}, u \in Users}
<1>0. r \in Credentials \cup Tokens \cup Codings \cup Changes \cup Namings
  BY NewKinds
<1>1. Idle \in RequestT /\ Passwords \subseteq Nat /\ Codes \subseteq Nat /\ handed \subseteq Token
  BY IdleTyped, AuthAssumption DEF Codes, AuthInv, Typed
<1>2. /\ \A t \in handed : t[1] \in Families(handed)
      /\ {"confirm", "update"} \subseteq Ops /\ {"pending", "class"} \subseteq Ats
  BY DEF Families, Ops, Ats
<1>3. ASSUME NEW o \in {"login", "password", "totpoff"}, NEW u \in Users, NEW w \in Passwords, NEW c \in Codes
      PROVE  Fine(Checked(o, u, w, c))
  BY <1>1 DEF RequestT, Ops, Ats, Checked
<1>4. ASSUME NEW o \in {"refresh", "logout"}, NEW t \in handed
      PROVE  Presents(o, t) \in RequestT /\ Presents(o, t).at = o /\ Presents(o, t).tok[1] \in Families(handed)
  BY <1>1, <1>2 DEF RequestT, Ops, Ats, Presents
<1>5. ASSUME NEW u \in Users, NEW c \in Codes
      PROVE  Fine(Confirms(u, c))
  BY <1>1, <1>2 DEF RequestT, Confirms
<1>6. ASSUME NEW u \in Users, NEW k \in Classes, NEW d \in Switches
      PROVE  Fine(Updates(u, k, d))
  BY <1>1, <1>2 DEF RequestT, Updates
<1>7. ASSUME NEW o \in {"create", "delete", "revoke", "enable", "regenerate"}, NEW u \in Users
      PROVE  Fine(Names(o, u))
  BY <1>1 DEF RequestT, Ops, Ats, Names
<1> HIDE DEF Fine
<1>8. ASSUME r \in Credentials
      PROVE  Fine(r)
  <2>1. \E o \in {"login", "password", "totpoff"}, u \in Users, w \in Passwords, c \in Codes : r = Checked(o, u, w, c)
    BY <1>8
  <2> QED BY <2>1, <1>3
<1>9. ASSUME r \in Tokens
      PROVE  r \in RequestT /\ r.at \in {"refresh", "logout"} /\ r.tok[1] \in Families(handed)
  <2>1. \E o \in {"refresh", "logout"}, t \in handed : r = Presents(o, t)
    BY <1>9
  <2> QED BY <2>1, <1>4
<1>10. ASSUME r \in Codings
      PROVE  Fine(r)
  <2>1. \E u \in Users, c \in Codes : r = Confirms(u, c)
    BY <1>10
  <2> QED BY <2>1, <1>5
<1>11. ASSUME r \in Changes
      PROVE  Fine(r)
  <2>1. \E u \in Users, k \in Classes, d \in Switches : r = Updates(u, k, d)
    BY <1>11
  <2> QED BY <2>1, <1>6
<1>12. ASSUME r \in Namings
      PROVE  Fine(r)
  <2>1. \E o \in {"create", "delete", "revoke", "enable", "regenerate"}, u \in Users : r = Names(o, u)
    BY <1>12
  <2> QED BY <2>1, <1>7
<1> HIDE DEF Credentials, Tokens, Codings, Changes, Namings
<1>13. Fine(r) \/ (r \in RequestT /\ r.at \in {"refresh", "logout"} /\ r.tok[1] \in Families(handed))
  BY <1>0, <1>8, <1>9, <1>10, <1>11, <1>12
<1> QED BY <1>13 DEF Fine, Fit

LEMMA StartKeeps ==
  ASSUME AuthInv, NEW p \in Callers, Start(p)
  PROVE  AuthInv' /\ RevokedStep
<1>1. PICK r \in New : req' = Goes(p, r)
  BY DEF Start
<1>2. UNCHANGED <<up, mem, disk, handed, uses, ended, dropped>>
  BY DEF Start
<1>3. \A q \in Callers : req'[q] = IF q = p THEN r ELSE req[q]
  BY <1>1 DEF Goes, AuthInv, Typed
<1>4. Known(req', handed') \subseteq Known(req, handed)
  BY <1>2, <1>3, NewTyped DEF Fit, Known
<1>5. FamiliesOk(mem', Known(req', handed'), uses', ended') /\ FamiliesOk(disk', Known(req', handed'), uses', ended')
  BY <1>2, <1>4 DEF AuthInv, SessionInv, FamiliesOk
<1>6. RequestsOk(req', handed') /\ UsesOk(uses', handed')
  BY <1>2, <1>3, NewTyped DEF Fit, AuthInv, SessionInv, RequestsOk, UsesOk
<1>7. Typed' /\ AdminInv'
  BY <1>1, <1>2, NewTyped DEF Fit, AuthInv, Typed, AdminInv, Goes
<1>8. (up' => Kept(mem', Known(req', handed'), dropped')) /\ Kept(disk', Known(req', handed'), dropped')
  BY <1>2, <1>4 DEF AuthInv, SessionInv, Kept
<1> QED BY <1>2, <1>5, <1>6, <1>7, <1>8 DEF AuthInv, SessionInv, RevokedStep

LEMMA HashKeeps ==
  ASSUME AuthInv, NEW p \in Callers, Hash(p)
  PROVE  AuthInv' /\ RevokedStep
<1> DEFINE r == [req[p] EXCEPT !.at = "account"]
<1>1. req[p].at = "hash"
  BY DEF Hash, At
<1>2. r \in RequestT /\ Fit(r)
  BY RequestTyped DEF RequestT, Ats, Fit
<1>3. Reads(p, r) \/ Refused(p)
  BY DEF Hash
<1> HIDE DEF r
<1> QED BY <1>2, <1>3, ReadsKeep, RefusedKeeps

LEMMA CheckedAccountKeeps ==
  ASSUME AuthInv, NEW p \in Callers, CheckedAccount(p)
  PROVE  AuthInv' /\ RevokedStep
<1> DEFINE r == [req[p] EXCEPT !.at = req[p].op]
<1>1. r \in RequestT /\ Fit(r)
  BY RequestTyped DEF RequestT, Ops, Ats, Fit
<1>2. Reads(p, r) \/ Refused(p)
  BY DEF CheckedAccount
<1> HIDE DEF r
<1> QED BY <1>1, <1>2, ReadsKeep, RefusedKeeps

LEMMA CheckPendingKeeps ==
  ASSUME AuthInv, NEW p \in Callers, CheckPending(p)
  PROVE  AuthInv' /\ RevokedStep
<1> DEFINE r == [req[p] EXCEPT !.at = "confirm"]
<1>1. r \in RequestT /\ Fit(r)
  BY RequestTyped DEF RequestT, Ops, Ats, Fit
<1>2. Reads(p, r) \/ Refused(p)
  BY DEF CheckPending
<1> HIDE DEF r
<1> QED BY <1>1, <1>2, ReadsKeep, RefusedKeeps
\* The calls that change one account.
LEMMA AccountStepsKeep ==
  ASSUME AuthInv, NEW p \in Callers,
         \/ EnableTOTP(p) \/ Confirm(p) \/ TotpOff(p) \/ CreateAccount(p) \/ UpdateAccount(p)
         \/ At(p, "password") /\ ChangePassword(p)
  PROVE  AuthInv' /\ RevokedStep
<1> DEFINE r == req[p]
<1>1. r \in RequestT /\ r.u \in Users /\ r.code \in Nat
  BY RequestTyped DEF RequestT
<1>2. Idle \in RequestT /\ Fit(Idle) /\ 0 \in Nat /\ "data" \in {"admin", "data"} /\ TRUE \in BOOLEAN
  BY IdleTyped DEF Fit
<1>3. Passwords \subseteq Nat
  BY AuthAssumption
<1>4. CASE EnableTOTP(p)
  <2>1. PICK secret \in 1..NSecrets : Method(p, StageTOTP(mem, r.u, secret, r.op = "regenerate"), Idle, Nothing)
    BY <1>4 DEF EnableTOTP
  <2>2. up /\ secret \in Nat /\ (r.op = "regenerate") \in BOOLEAN
    BY <1>4, AuthAssumption DEF EnableTOTP
  <2> HIDE DEF r
  <2> QED BY <1>1, <1>2, <2>1, <2>2, AccountMethodKeeps
<1>5. CASE Confirm(p)
  <2>1. up /\ Method(p, ConfirmTOTP(mem, r.u, r.code), Idle, Nothing)
    BY <1>5 DEF Confirm, At
  <2> HIDE DEF r
  <2> QED BY <1>1, <1>2, <2>1, AccountMethodKeeps
<1>6. CASE TotpOff(p)
  <2>1. up /\ Method(p, DisableTOTP(mem, r.u), Idle, Nothing)
    BY <1>6 DEF TotpOff, At
  <2> HIDE DEF r
  <2> QED BY <1>1, <1>2, <2>1, AccountMethodKeeps
<1>7. CASE CreateAccount(p)
  <2>1. PICK k \in {"admin", "data"}, w \in Passwords : Method(p, Create(mem, r.u, k, w), Idle, Nothing)
    BY <1>7 DEF CreateAccount
  <2>2. up /\ w \in Nat
    BY <1>3, <1>7 DEF CreateAccount, At
  <2> HIDE DEF r
  <2> QED BY <1>1, <1>2, <2>1, <2>2, AccountMethodKeeps
<1>8. CASE At(p, "class") /\ UpdateAccount(p)
  <2> DEFINE rest == [r EXCEPT !.at = "disabled"]
  <2>1. up /\ r.at = "class" /\ (Reads(p, rest) \/ (Method(p, SetClass(mem, r.u, r.class), rest, Nothing) /\ r.class \in {"admin", "data"}))
    <3>1. r.class \in Classes
      BY <1>1 DEF RequestT
    <3>2. r.class # "" => r.class \in {"admin", "data"}
      BY <3>1, Zenon DEF Classes
    <3>3. up /\ r.at = "class"
      BY <1>8 DEF At
    <3>4. IF r.class = "" THEN Reads(p, rest) ELSE Method(p, SetClass(mem, r.u, r.class), rest, Nothing)
      BY <1>8 DEF UpdateAccount, At
    <3> HIDE DEF r, rest
    <3> QED BY <3>2, <3>3, <3>4, Zenon
  <2>2. rest \in RequestT /\ Fit(rest)
    BY RequestTyped DEF RequestT, Ats, Fit
  <2> HIDE DEF r, rest
  <2> QED BY <1>1, <1>2, <2>1, <2>2, AccountMethodKeeps, ReadsKeep
<1>9. CASE At(p, "disabled") /\ UpdateAccount(p)
  <2>1. up /\ (Reads(p, Idle) \/ Method(p, SetDisabled(mem, r.u, r.dis = "on"), Idle, Nothing))
    BY <1>9 DEF UpdateAccount, At
  <2>2. (r.dis = "on") \in BOOLEAN
    OBVIOUS
  <2> HIDE DEF r
  <2> QED BY <1>1, <1>2, <2>1, <2>2, AccountMethodKeeps, ReadsKeep
<1>10. CASE At(p, "password") /\ ChangePassword(p)
  <2> DEFINE rest == [r EXCEPT !.at = "sessions"]
  <2>1. PICK w \in Passwords : Method(p, SetPassword(mem, r.u, w), rest, Nothing)
    BY <1>10 DEF ChangePassword, At
  <2>2. up /\ w \in Nat
    BY <1>3, <1>10 DEF At
  <2>3. rest \in RequestT /\ Fit(rest)
    BY RequestTyped DEF RequestT, Ats, Fit
  <2> HIDE DEF r, rest
  <2> QED BY <1>1, <1>2, <2>1, <2>2, <2>3, AccountMethodKeeps
<1> QED BY <1>4, <1>5, <1>6, <1>7, <1>8, <1>9, <1>10 DEF UpdateAccount

\* The calls that revoke: the end of a password change, a logout, an administrator's revocation.
LEMMA RevocationsKeep ==
  ASSUME AuthInv, NEW p \in Callers,
         Logout(p) \/ RevokeSessions(p) \/ (At(p, "sessions") /\ ChangePassword(p))
  PROVE  AuthInv' /\ RevokedStep
<1> DEFINE r == req[p]
<1>1. r \in RequestT /\ r.tok \in Token /\ r.tok[1] \in Fams /\ mem \in StoreT
  BY RequestTyped, KnownTyped DEF RequestT
<1>2. CASE Logout(p)
  <2> DEFINE known == r.tok[2] \in {mem.fam[r.tok[1]].cur, mem.fam[r.tok[1]].prev}
             res == RevokeByToken(mem, r.tok)
             end == IF known THEN {r.tok[1]} ELSE {}
  <2>1. up /\ Method(p, res, Idle, [Nothing EXCEPT !.end = end])
    BY <1>2 DEF Logout, At
  <2>2. res.ok /\ Revokes(mem, res.m) /\ (known => res.m.fam[r.tok[1]].revoked)
    BY <1>1, RevokeByTokenStore
  <2>3. end \subseteq Fams /\ \A f \in end : res.m.fam[f].revoked
    BY <1>1, <2>2
  <2>4. Commit(p, res.m, Goes(p, Idle), [Nothing EXCEPT !.end = end])
    BY <2>1, <2>2 DEF Method
  <2> HIDE DEF res, end, known
  <2> QED BY <2>1, <2>2, <2>3, <2>4, RevokesKeep
<1>3. ASSUME NEW u, up, Method(p, RevokeAllForUser(mem, u), Idle, [Nothing EXCEPT !.end = OwnedBy(u)])
      PROVE  AuthInv' /\ RevokedStep
  <2> DEFINE res == RevokeAllForUser(mem, u)
  <2>1. res.ok /\ Revokes(mem, res.m) /\ \A f \in OwnedBy(u) : f \in Fams /\ res.m.fam[f].revoked
    BY <1>1, RevokeAllStore DEF OwnedBy
  <2>2. Commit(p, res.m, Goes(p, Idle), [Nothing EXCEPT !.end = OwnedBy(u)])
    BY <1>3, <2>1 DEF Method
  <2> HIDE DEF res
  <2> QED BY <1>3, <2>1, <2>2, RevokesKeep
<1>4. CASE RevokeSessions(p)
  BY <1>3, <1>4, RefusedKeeps DEF RevokeSessions, At
<1>5. CASE At(p, "sessions") /\ ChangePassword(p)
  BY <1>3, <1>5 DEF ChangePassword, At
<1> QED BY <1>2, <1>4, <1>5
\* Every known token is of a family that tokens were handed out of.
LEMMA KnownFamilies ==
  ASSUME AuthInv
  PROVE  \A t \in Known(req, handed) : t[1] \in Families(handed)
BY DEF AuthInv, SessionInv, RequestsOk, Known, Families

\* issuePair starts a family under an unused name and hands out its first token.
LEMMA LoginKeeps ==
  ASSUME AuthInv, NEW p \in Callers, Login(p)
  PROVE  AuthInv' /\ RevokedStep
<1> DEFINE u == req[p].u
           e(f) == [Nothing EXCEPT !.hand = {<<f, 1>>}]
<1>1. PICK f \in Fams : Unused(f) /\ Method(p, NewFamily(mem, f, u), Idle, e(f))
  BY DEF Login
<1> DEFINE m == NewFamily(mem, f, u).m
           rs == Goes(p, Idle)
           us == [t \in Token |-> uses[t] + IF t \in e(f).use THEN 1 ELSE 0]
<1>2. up /\ u \in Users /\ mem \in StoreT /\ Admins(mem) # {}
  BY RequestTyped DEF Login, At, RequestT
<1>3. /\ NewFamily(mem, f, u).ok /\ m \in StoreT /\ m.acc = mem.acc
      /\ m.fam = [mem.fam EXCEPT ![f] = NewFam(u)]
  BY <1>2, NewFamilyStore
<1>4. Commit(p, m, rs, e(f))
  BY <1>1, <1>3 DEF Method
<1>5. f \notin Families(handed) /\ f \notin ended
  BY <1>1 DEF Unused, Families
<1>6. e(f).hand = {<<f, 1>>} /\ e(f).use = {} /\ e(f).end = {} /\ e(f).drop = {} /\ <<f, 1>> \in Token
  BY AccountsAssumption DEF Nothing, Token
<1>7. rs \in [Callers -> RequestT] /\ \A q \in Callers : rs[q] = IF q = p THEN Idle ELSE req[q]
  BY IdleTyped DEF AuthInv, Typed, Goes
<1>8. RequestsOk(rs, handed)
  BY <1>7, IdleTyped DEF AuthInv, SessionInv, RequestsOk
<1>9. us = uses
  BY <1>6 DEF AuthInv, Typed
<1>10. Admins(m) # {}
  BY <1>2, <1>3 DEF Admins
<1>11. /\ \A g \in Fams : g # f => m.fam[g] = mem.fam[g]
       /\ m.fam[f].user = u /\ m.fam[f].cur = 1
  BY <1>2, <1>3 DEF StoreT, NewFam
<1>12. FamiliesOk(m, Known(req, handed), uses, ended)
  <2>0. FamiliesOk(mem, Known(req, handed), uses, ended)
    BY DEF AuthInv, SessionInv
  <2>1. \A g \in Fams : m.fam[g].revoked \/ m.fam[g].user \in Users
    BY <1>2, <1>11, <2>0 DEF FamiliesOk
  <2>2. \A g \in ended : m.fam[g].revoked
    BY <1>5, <1>11, KnownTyped DEF AuthInv, SessionInv, FamiliesOk
  <2>3. \A t \in Token : uses[t] > 0 => m.fam[t[1]].revoked \/ t[2] < m.fam[t[1]].cur
    BY <1>5, <1>11, KnownTyped DEF AuthInv, SessionInv, FamiliesOk, UsesOk
  <2>4. \A t \in Known(req, handed) : m.fam[t[1]] # NoFam => t[2] <= m.fam[t[1]].cur
    <3> SUFFICES ASSUME NEW t \in Known(req, handed), m.fam[t[1]] # NoFam
                 PROVE  t[2] <= m.fam[t[1]].cur
      OBVIOUS
    <3>1. t[1] \in Fams /\ t[1] # f
      BY <1>5, KnownTyped, KnownFamilies
    <3>2. m.fam[t[1]] = mem.fam[t[1]]
      BY <1>11, <3>1
    <3> QED BY <2>0, <3>2 DEF FamiliesOk
  <2> QED BY <2>1, <2>2, <2>3, <2>4 DEF FamiliesOk
<1>13. FamiliesOk(m, Known(rs, handed \cup e(f).hand), us, ended \cup e(f).end)
  <2>1. \A t \in Known(rs, handed \cup e(f).hand) : t \in Known(req, handed) \/ t = <<f, 1>>
    BY <1>6, <1>7, IdleTyped DEF Known
  <2>2. \A t \in Known(rs, handed \cup e(f).hand) : m.fam[t[1]] # NoFam => t[2] <= m.fam[t[1]].cur
    <3> SUFFICES ASSUME NEW t \in Known(rs, handed \cup e(f).hand), m.fam[t[1]] # NoFam
                 PROVE  t[2] <= m.fam[t[1]].cur
      OBVIOUS
    <3> HIDE DEF m
    <3>1. CASE t \in Known(req, handed)
      BY <1>12, <3>1 DEF FamiliesOk
    <3>2. CASE t = <<f, 1>>
      BY <1>11, <3>2
    <3> QED BY <2>1, <3>1, <3>2
  <2>3. ended \cup e(f).end = ended
    BY <1>6
  <2> QED BY <1>9, <1>12, <2>2, <2>3 DEF FamiliesOk
<1>14. \A q \in Callers \ {p} : rs[q].at = "owner" => req[q].at = "owner" /\ rs[q].tok = req[q].tok
  BY <1>7
<1>15. Kept(m, Known(req, handed) \cup Known(rs, handed \cup e(f).hand), dropped \cup e(f).drop)
  <2>1. \A t \in Known(rs, handed \cup e(f).hand) : t \in Known(req, handed) \/ t = <<f, 1>>
    BY <1>6, <1>7, IdleTyped DEF Known
  <2>2. \A t \in Known(req, handed) : m.fam[t[1]].cur # 0 \/ t[1] \in dropped
    <3> HIDE DEF m
    <3> QED BY <1>2, <1>11, KnownTyped DEF AuthInv, SessionInv, Kept
  <2>3. m.fam[f].cur # 0
    BY <1>11
  <2> HIDE DEF m, rs, e
  <2> QED BY <2>1, <2>2, <2>3 DEF Kept
<1> HIDE DEF m, rs, e
<1> QED BY <1>2, <1>3, <1>4, <1>6, <1>7, <1>8, <1>10, <1>12, <1>13, <1>14, <1>15, CommitKeeps

\* DeleteAccount ends the families of the account; other requests may keep a copy of it.
LEMMA DeleteKeeps ==
  ASSUME AuthInv, NEW p \in Callers, DeleteAccount(p)
  PROVE  AuthInv' /\ RevokedStep
<1> DEFINE u == req[p].u
           res == Delete(mem, u)
           m == res.m
           rs == [q \in Callers |-> IF q = p THEN Idle
                     ELSE IF req[q].at = "account" /\ req[q].u = u /\ ~ req[q].copy.in
                            THEN [req[q] EXCEPT !.copy = mem.acc[u]] ELSE req[q]]
           e == [Nothing EXCEPT !.end = OwnedBy(u), !.drop = OwnedBy(u)]
           us == [t \in Token |-> uses[t] + IF t \in e.use THEN 1 ELSE 0]
<1>1. up /\ u \in Users /\ mem \in StoreT /\ Admins(mem) # {} /\ mem.acc[u] \in AccountT
  BY RequestTyped DEF DeleteAccount, At, RequestT, StoreT
<1>2. CASE ~ res.ok
  BY <1>2, RefusedKeeps DEF DeleteAccount
<1>3. CASE res.ok
  <2>1. Commit(p, m, rs, e)
    BY <1>3 DEF DeleteAccount
  <2>2. /\ m \in StoreT /\ Admins(m) # {}
        /\ \A f \in Fams : m.fam[f] = IF mem.fam[f].user = u THEN NoFam ELSE mem.fam[f]
    BY <1>1, <1>3, DeleteStore
  <2>3. e.hand = {} /\ e.use = {} /\ e.end = OwnedBy(u) /\ e.drop = OwnedBy(u)
    BY DEF Nothing
  <2>4. /\ rs \in [Callers -> RequestT] /\ rs[p] = Idle
        /\ \A q \in Callers \ {p} : rs[q].at = req[q].at /\ rs[q].op = req[q].op /\ rs[q].tok = req[q].tok
    <3>1. \A q \in Callers : req[q] \in RequestT /\ [req[q] EXCEPT !.copy = mem.acc[u]] \in RequestT
      BY <1>1, RequestTyped DEF RequestT
    <3>2. \A q \in Callers : rs[q] \in RequestT
      BY <3>1, IdleTyped
    <3>3. \A q \in Callers \ {p} : rs[q].at = req[q].at /\ rs[q].op = req[q].op /\ rs[q].tok = req[q].tok
      BY <3>1 DEF RequestT
    <3> QED BY <3>2, <3>3
  <2>5. NoFam.revoked = TRUE
    BY DEF NoFam
  <2>6. RequestsOk(rs, handed)
    BY <2>4, IdleTyped DEF AuthInv, SessionInv, RequestsOk
  <2>7. FamiliesOk(m, Known(req, handed), uses, ended)
    <3> HIDE DEF m
    <3>1. \A f \in Fams : m.fam[f].revoked \/ m.fam[f] = mem.fam[f]
      BY <2>2, <2>5
    <3>2. \A f \in Fams : m.fam[f] # NoFam => m.fam[f] = mem.fam[f]
      BY <2>2
    <3> QED BY <3>1, <3>2, KnownTyped DEF AuthInv, SessionInv, FamiliesOk
  <2>8. FamiliesOk(m, Known(rs, handed \cup e.hand), us, ended \cup e.end)
    <3>1. Known(rs, handed \cup e.hand) \subseteq Known(req, handed)
      BY <2>3, <2>4, IdleTyped DEF Known
    <3>2. us = uses
      BY <2>3 DEF AuthInv, Typed
    <3>3. \A f \in e.end : m.fam[f].revoked
      BY <2>2, <2>3, <2>5 DEF OwnedBy
    <3> HIDE DEF m, rs, e, us
    <3> QED BY <2>7, <3>1, <3>2, <3>3 DEF FamiliesOk
  <2>9. /\ e.hand \subseteq Token /\ e.end \subseteq Fams /\ e.drop \subseteq Fams
        /\ \A t \in e.use \cap Token : uses[t] = 0 /\ t[1] \in Families(handed) \ ended
    BY <2>3 DEF OwnedBy
  <2>10. Kept(m, Known(req, handed) \cup Known(rs, handed \cup e.hand), dropped \cup e.drop)
    <3>1. Known(rs, handed \cup e.hand) \subseteq Known(req, handed)
      BY <2>3, <2>4, IdleTyped DEF Known
    <3>2. \A f \in Fams : f \in e.drop \/ m.fam[f] = mem.fam[f]
      BY <2>2, <2>3 DEF OwnedBy
    <3> HIDE DEF m, rs, e
    <3> QED BY <1>1, <3>1, <3>2, KnownTyped DEF AuthInv, SessionInv, Kept
  <2> HIDE DEF m, rs, e
  <2> QED BY <1>1, <2>1, <2>2, <2>4, <2>6, <2>7, <2>8, <2>9, <2>10, CommitKeeps
<1> QED BY <1>2, <1>3
\* Rotation: the presented token is the current one of a live family and has not been
\* exchanged; the next one is known to the store before it is handed out.
LEMMA RotateKeeps ==
  ASSUME AuthInv, NEW p \in Callers, At(p, "refresh"), Refresh(p)
  PROVE  AuthInv' /\ RevokedStep
<1> DEFINE r == req[p]
           res == Rotate(mem, r.tok)
           fam == mem.fam[r.tok[1]]
           new == <<r.tok[1], r.tok[2] + 1>>
           goes == [r EXCEPT !.at = "owner", !.u = fam.user, !.tok = new]
           e == [Nothing EXCEPT !.use = {r.tok}]
           rs == Goes(p, goes)
           us == [t \in Token |-> uses[t] + IF t \in e.use THEN 1 ELSE 0]
<1>1. /\ up /\ r.at = "refresh" /\ r.tok[2] < MaxGen
      /\ CASE res.what = "theft" -> Commit(p, res.m, Goes(p, Idle), [Nothing EXCEPT !.end = {r.tok[1]}])
           [] res.what = "rotated" -> Commit(p, res.m, rs, e)
           [] OTHER -> Refused(p)
  BY DEF Refresh, At
<1>2. /\ r \in RequestT /\ r.tok \in Token /\ mem \in StoreT /\ Admins(mem) # {}
      /\ r.tok[1] \in Fams /\ r.tok[1] \in Families(handed) /\ fam \in FamT
  BY <1>1, RequestTyped, KnownTyped DEF RequestT, StoreT
<1>3. /\ res.m \in StoreT /\ res.m.acc = mem.acc /\ res.what \in {"theft", "rotated", "invalid"}
      /\ res.what = "theft" => res.m.fam = [mem.fam EXCEPT ![r.tok[1]] = [fam EXCEPT !.revoked = TRUE]]
      /\ res.what = "rotated" => /\ ~ fam.revoked /\ fam.cur = r.tok[2]
                                 /\ res.m.fam = [mem.fam EXCEPT ![r.tok[1]] = Rotated(fam)]
  BY <1>1, <1>2, RotateStore
<1>4. CASE res.what = "theft"
  <2> DEFINE end == {r.tok[1]}
             dead == [fam EXCEPT !.revoked = TRUE]
  <2>1. Commit(p, res.m, Goes(p, Idle), [Nothing EXCEPT !.end = end])
    BY <1>1, <1>4
  <2>2. dead \in FamT /\ dead.revoked
    BY <1>2 DEF FamT
  <2>3. res.m.fam = [mem.fam EXCEPT ![r.tok[1]] = dead] /\ mem.fam \in [Fams -> FamT]
    BY <1>2, <1>3, <1>4 DEF StoreT
  <2>4. \A f \in Fams : res.m.fam[f] \in {mem.fam[f], [mem.fam[f] EXCEPT !.revoked = TRUE]}
    <3> SUFFICES ASSUME NEW f \in Fams
                 PROVE  res.m.fam[f] = mem.fam[f] \/ res.m.fam[f] = [mem.fam[f] EXCEPT !.revoked = TRUE]
      OBVIOUS
    <3>1. CASE f = r.tok[1]
      <4>1. res.m.fam[f] = dead
        <5> HIDE DEF res, dead, r
        <5> QED BY <2>3, <3>1
      <4> QED BY <3>1, <4>1
    <3>2. CASE f # r.tok[1]
      <4> HIDE DEF res, dead, r
      <4> QED BY <2>3, <3>2
    <3> QED BY <3>1, <3>2
  <2>5. end \subseteq Fams /\ \A f \in end : res.m.fam[f].revoked
    <3> HIDE DEF res, dead, r
    <3> QED BY <1>2, <2>2, <2>3
  <2>6. Revokes(mem, res.m)
    BY <1>3, <2>4 DEF Revokes
  <2> HIDE DEF res, r, end
  <2> QED BY <1>1, <2>1, <2>5, <2>6, RevokesKeep
<1>5. CASE res.what = "rotated"
  <2>0. Commit(p, res.m, rs, e)
    BY <1>1, <1>5
  <2> DEFINE m == res.m
             f == r.tok[1]
  <2>1. /\ ~ fam.revoked /\ fam.cur = r.tok[2] /\ r.tok[2] \in 1..MaxGen /\ f \notin ended
        /\ fam.user \in Users /\ fam # NoFam
    <3>1. FamiliesOk(mem, Known(req, handed), uses, ended) /\ NoFam.revoked
      BY DEF AuthInv, SessionInv, NoFam
    <3>2. r.tok[2] \in 1..MaxGen
      BY <1>2 DEF Token
    <3> HIDE DEF r, fam, res
    <3> QED BY <1>2, <1>3, <1>5, <3>1, <3>2 DEF FamiliesOk, fam
  <2>2. new \in Token /\ goes \in RequestT /\ goes.at = "owner" /\ goes.tok = new
    <3>1. new \in Token
      BY <1>1, <1>2, <2>1, AccountsAssumption DEF Token
    <3> HIDE DEF new, fam
    <3> QED BY <1>2, <2>1, <3>1 DEF RequestT, Ats
  <2>3. uses[r.tok] = 0
    <3> HIDE DEF r, fam
    <3>1. uses[r.tok] \in Nat
      BY <1>2 DEF AuthInv, Typed
    <3>2. uses[r.tok] > 0 => mem.fam[r.tok[1]].revoked \/ r.tok[2] < mem.fam[r.tok[1]].cur
      BY <1>2 DEF AuthInv, SessionInv, FamiliesOk
    <3> QED BY <2>1, <3>1, <3>2 DEF fam
  <2>4. /\ \A g \in Fams : g # f => m.fam[g] = mem.fam[g]
        /\ m.fam[f].user = fam.user /\ m.fam[f].cur = fam.cur + 1
    <3>1. Rotated(fam).user = fam.user /\ Rotated(fam).cur = fam.cur + 1
      BY <1>2 DEF Rotated, FamT
    <3> HIDE DEF res
    <3> QED BY <1>2, <1>3, <1>5, <3>1 DEF StoreT
  <2>5. e.hand = {} /\ e.use = {r.tok} /\ e.end = {} /\ e.drop = {}
    BY DEF Nothing
  <2>6. rs \in [Callers -> RequestT] /\ \A q \in Callers : rs[q] = IF q = p THEN goes ELSE req[q]
    <3> HIDE DEF goes
    <3> QED BY <2>2 DEF AuthInv, Typed, Goes
  <2>7. RequestsOk(rs, handed)
    <3>1. goes.tok[1] = r.tok[1]
      BY <2>2
    <3> HIDE DEF goes, rs
    <3> QED BY <1>2, <2>6, <3>1 DEF AuthInv, SessionInv, RequestsOk
  <2>8. Admins(m) # {}
    BY <1>2, <1>3 DEF Admins
  <2>9. \A q \in Callers \ {p} : rs[q].at = "owner" => req[q].at = "owner" /\ rs[q].tok = req[q].tok
    <3> HIDE DEF goes, rs
    <3> QED BY <2>6
  <2> HIDE DEF m
  <2>10. FamiliesOk(mem, Known(req, handed), uses, ended)
    BY DEF AuthInv, SessionInv
  <2>11. \A g \in Fams : m.fam[g].revoked \/ m.fam[g].user \in Users
    BY <2>1, <2>4, <2>10 DEF FamiliesOk
  <2>12. \A g \in ended : m.fam[g].revoked
    BY <2>1, <2>4, <2>10, KnownTyped DEF FamiliesOk
  <2>13. \A t \in Token : t = r.tok \/ uses[t] > 0 => m.fam[t[1]].revoked \/ t[2] < m.fam[t[1]].cur
    <3> SUFFICES ASSUME NEW t \in Token, t = r.tok \/ uses[t] > 0
                 PROVE  m.fam[t[1]].revoked \/ t[2] < m.fam[t[1]].cur
      OBVIOUS
    <3>1. t[1] \in Fams /\ t[2] \in Nat
      BY AccountsAssumption DEF Token
    <3> HIDE DEF r, fam, f
    <3>2. CASE t[1] # f /\ t # r.tok
      BY <2>4, <2>10, <3>1, <3>2 DEF FamiliesOk
    <3>3. CASE t = r.tok
      BY <2>1, <2>4, <3>3 DEF f
    <3>4. CASE t[1] = f /\ t # r.tok
      <4>1. mem.fam[f] = fam
        BY DEF fam, f
      <4>2. t[2] < fam.cur
        BY <2>1, <2>10, <3>1, <3>4, <4>1 DEF FamiliesOk
      <4> QED BY <2>1, <2>4, <3>1, <3>4, <4>2
    <3> QED BY <3>2, <3>3, <3>4 DEF f
  <2>14. \A t \in Known(req, handed) \cup {new} : m.fam[t[1]] # NoFam => t[2] <= m.fam[t[1]].cur
    <3> SUFFICES ASSUME NEW t \in Known(req, handed) \cup {new}, m.fam[t[1]] # NoFam
                 PROVE  t[2] <= m.fam[t[1]].cur
      OBVIOUS
    <3>1. CASE t = new
      BY <2>1, <2>4, <3>1
    <3>2. CASE t \in Known(req, handed)
      <4>1. t[1] \in Fams /\ t[2] \in Nat
        BY <3>2, KnownTyped, AccountsAssumption DEF Token
      <4>2. mem.fam[f] = fam
        OBVIOUS
      <4> HIDE DEF r, fam, f
      <4>3. CASE t[1] # f
        BY <2>4, <2>10, <3>2, <4>1, <4>3 DEF FamiliesOk
      <4>4. CASE t[1] = f
        <5>1. t[2] <= fam.cur
          BY <2>1, <2>10, <3>2, <4>2, <4>4 DEF FamiliesOk
        <5> QED BY <2>1, <2>4, <4>1, <4>4, <5>1
      <4> QED BY <4>3, <4>4
    <3> QED BY <3>1, <3>2
  <2>15. FamiliesOk(m, Known(req, handed), uses, ended)
    BY <2>11, <2>12, <2>13, <2>14 DEF FamiliesOk
  <2>16. FamiliesOk(m, Known(rs, handed \cup e.hand), us, ended \cup e.end)
    <3>1. \A t \in Known(rs, handed \cup e.hand) : t \in Known(req, handed) \cup {new}
      <4> HIDE DEF rs, goes, new
      <4> QED BY <2>2, <2>5, <2>6 DEF Known
    <3>2. \A t \in Token : us[t] > 0 => t = r.tok \/ uses[t] > 0
      <4> HIDE DEF r
      <4> QED BY <2>5 DEF AuthInv, Typed
    <3>3. ended \cup e.end = ended
      BY <2>5
    <3> HIDE DEF rs, e, us, new, r
    <3> QED BY <2>11, <2>12, <2>13, <2>14, <3>1, <3>2, <3>3 DEF FamiliesOk
  <2>17. e.hand \subseteq Token /\ e.end \subseteq Fams /\ \A t \in e.use \cap Token : uses[t] = 0 /\ t[1] \in Families(handed) \ ended
    BY <1>2, <2>1, <2>3, <2>5
  <2>18. Kept(m, Known(req, handed) \cup Known(rs, handed \cup e.hand), dropped \cup e.drop)
    <3>1. \A t \in Known(rs, handed \cup e.hand) : t \in Known(req, handed) \cup {new}
      <4> HIDE DEF rs, goes, new
      <4> QED BY <2>2, <2>5, <2>6 DEF Known
    <3>2. m.fam[f].cur # 0 /\ new[1] = f
      BY <2>1, <2>4
    <3> HIDE DEF rs, e, new, f
    <3>3. \A t \in Known(req, handed) : m.fam[t[1]].cur # 0 \/ t[1] \in dropped
      BY <1>1, <2>4, <3>2, KnownTyped DEF AuthInv, SessionInv, Kept
    <3> QED BY <3>1, <3>2, <3>3 DEF Kept
  <2> HIDE DEF rs, e
  <2>19. Commit(p, m, rs, e) /\ m \in StoreT /\ e.drop \subseteq Fams
    BY <1>3, <2>0, <2>5 DEF m
  <2> QED BY <1>1, <2>6, <2>7, <2>8, <2>9, <2>15, <2>16, <2>17, <2>18, <2>19, CommitKeeps
<1>6. CASE res.what = "invalid"
  <2>1. Refused(p)
    BY <1>1, <1>6
  <2> QED BY <2>1, RefusedKeeps
<1> HIDE DEF res
<1> QED BY <1>3, <1>4, <1>5, <1>6
\* The new token is handed out unless its account is gone or disabled.
LEMMA OwnerKeeps ==
  ASSUME AuthInv, NEW p \in Callers, At(p, "owner"), Refresh(p)
  PROVE  AuthInv' /\ RevokedStep
<1> DEFINE r == req[p]
           rest == [r EXCEPT !.at = "logout"]
<1>1. r.at = "owner" /\ r \in RequestT /\ r.tok \in Token /\ r.tok[1] \in Families(handed)
  BY RequestTyped DEF At, RequestT
<1>2. CASE Reads(p, rest)
  <2>1. rest \in RequestT /\ Fit(rest)
    BY <1>1 DEF RequestT, Ats, Ops, Fit
  <2> HIDE DEF rest
  <2> QED BY <1>2, <2>1, ReadsKeep
<1>3. CASE /\ req' = Goes(p, Idle) /\ handed' = handed \cup {r.tok}
           /\ UNCHANGED <<up, mem, disk, uses, ended, dropped, left>>
  <2>1. \A q \in Callers : req'[q] = IF q = p THEN Idle ELSE req[q]
    BY <1>3 DEF Goes, AuthInv, Typed
  <2>2. Typed' /\ AdminInv'
    <3>1. req' \in [Callers -> RequestT] /\ handed' \subseteq Token
      BY <1>1, <1>3, IdleTyped DEF AuthInv, Typed, Goes
    <3> QED BY <1>3, <3>1 DEF AuthInv, Typed, AdminInv
  <2>3. r.tok \in Known(req, handed)
    BY <1>1 DEF Known
  <2>4. Known(req', handed') \subseteq Known(req, handed)
    <3> HIDE DEF r
    <3> QED BY <1>3, <2>1, <2>3, IdleTyped DEF Known
  <2>5. FamiliesOk(mem', Known(req', handed'), uses', ended') /\ FamiliesOk(disk', Known(req', handed'), uses', ended')
    BY <1>3, <2>4 DEF AuthInv, SessionInv, FamiliesOk
  <2>6. Families(handed) \subseteq Families(handed')
    BY <1>3 DEF Families
  <2>7. RequestsOk(req', handed') /\ UsesOk(uses', handed')
    BY <1>3, <2>1, <2>6, IdleTyped DEF AuthInv, SessionInv, RequestsOk, UsesOk
  <2>8. (up' => Kept(mem', Known(req', handed'), dropped')) /\ Kept(disk', Known(req', handed'), dropped')
    BY <1>3, <2>4 DEF AuthInv, SessionInv, Kept
  <2> QED BY <1>3, <2>2, <2>5, <2>7, <2>8 DEF AuthInv, SessionInv, RevokedStep
<1>4. Reads(p, rest) \/ (/\ req' = Goes(p, Idle) /\ handed' = handed \cup {r.tok}
                         /\ UNCHANGED <<up, mem, disk, uses, ended, dropped, left>>)
  BY DEF Refresh, At
<1> QED BY <1>2, <1>3, <1>4
-----------------------------------------------------------------------------
(* The theorems.                                                           *)

\* The first state: nothing has run, or the file holds an administrator and a session.
LEMMA InitAuthInv == Init => AuthInv
<1> SUFFICES ASSUME Init PROVE AuthInv
  OBVIOUS
<1> DEFINE FileOk ==
      /\ disk \in StoreT /\ handed \subseteq Token /\ (disk # NoFile => Admins(disk) # {})
      /\ \A f \in Fams : disk.fam[f].revoked \/ disk.fam[f].user \in Users
      /\ \A t \in handed : disk.fam[t[1]].cur = t[2]
      /\ \A t \in handed : t[1] \in Fams /\ t[2] \in Nat /\ disk.fam[t[1]].cur # 0
<1>1. /\ up = FALSE /\ mem = EmptyStore /\ req = [p \in Callers |-> Idle]
      /\ uses = [t \in Token |-> 0] /\ ended = {} /\ dropped = {}
  BY DEF Init
<1>2. FileOk
  <2>1. CASE disk = NoFile /\ handed = {}
    BY <2>1, EmptyTyped DEF EmptyStore, NoFam
  <2>2. ASSUME NEW u \in Users \ {Admin}, disk = Seeded(u), handed = {<<1, 1>>}
        PROVE  FileOk
    <3> DEFINE acct(v) == [Account("admin", 1) EXCEPT !.totp = IF v = u THEN 1 ELSE NoSecret]
    <3>1. 1 \in Fams /\ <<1, 1>> \in Token
      BY AccountsAssumption DEF Fams, Token
    <3>2. \A v \in Users : acct(v) \in AccountT /\ Enabled(acct(v))
      BY DEF Account, AccountT, NoSecret, Enabled
    <3>3. disk.acc = [v \in Users |-> IF v \in {Admin, u} THEN acct(v) ELSE NoAccount]
      BY <2>2 DEF Seeded
    <3>4. disk.fam = [f \in Fams |-> IF f = 1 THEN NewFam(u) ELSE NoFam]
      BY <2>2 DEF Seeded
    <3>5. NewFam(u) \in FamT /\ NewFam(u).user = u /\ NewFam(u).cur = 1
      BY AccountsAssumption DEF NewFam, FamT
    <3>6. disk = [acc |-> disk.acc, fam |-> disk.fam]
      BY <2>2 DEF Seeded
    <3>7. disk \in StoreT
      <4> HIDE DEF acct
      <4>1. disk.acc \in [Users -> AccountT]
        BY <3>2, <3>3, EmptyTyped
      <4>2. disk.fam \in [Fams -> FamT]
        BY <3>4, <3>5, EmptyTyped
      <4> QED BY <3>6, <4>1, <4>2 DEF StoreT
    <3>8. Admin \in Admins(disk)
      <4> HIDE DEF acct
      <4> QED BY <3>2, <3>3, AccountsAssumption DEF Admins
    <3>9. \A f \in Fams : disk.fam[f].revoked \/ disk.fam[f].user \in Users
      BY <3>4, <3>5 DEF NoFam
    <3>10. \A t \in handed : t[1] = 1 /\ t[2] = 1
      BY <2>2
    <3>11. disk.fam[1].cur = 1
      BY <3>1, <3>4, <3>5
    <3> QED BY <2>2, <3>1, <3>7, <3>8, <3>9, <3>10, <3>11
  <2> QED BY <2>1, <2>2 DEF Init
<1>3. Typed /\ AdminInv
  BY <1>1, <1>2, EmptyTyped, IdleTyped DEF Typed, AdminInv
<1>4. Known(req, handed) = handed
  BY <1>1, IdleTyped DEF Known
<1>5. FamiliesOk(disk, Known(req, handed), uses, ended)
  BY <1>1, <1>2, <1>4 DEF FamiliesOk
<1>6. \A f \in Fams : mem.fam[f] = NoFam /\ NoFam.revoked
  BY <1>1 DEF EmptyStore, NoFam
<1>7. FamiliesOk(mem, Known(req, handed), uses, ended)
  BY <1>1, <1>2, <1>4, <1>6 DEF FamiliesOk
<1>8. RequestsOk(req, handed) /\ UsesOk(uses, handed)
  BY <1>1, IdleTyped DEF RequestsOk, UsesOk
<1>9. Kept(disk, Known(req, handed), dropped)
  BY <1>2, <1>4 DEF Kept
<1> QED BY <1>1, <1>3, <1>5, <1>7, <1>8, <1>9 DEF AuthInv, SessionInv

\* Every step keeps the invariant and exchanges no token of a family that has ended.
LEMMA NextAuthInv == AuthInv /\ [Next]_vars => AuthInv' /\ RevokedStep
<1> SUFFICES ASSUME AuthInv, [Next]_vars PROVE AuthInv' /\ RevokedStep
  OBVIOUS
<1>1. CASE UNCHANGED vars
  BY <1>1 DEF vars, AuthInv, Typed, AdminInv, SessionInv, RevokedStep
<1>2. CASE Boot
  BY <1>2, BootKeeps
<1>3. CASE Crash
  BY <1>3, CrashKeeps
<1>4. ASSUME NEW f \in Fams, Expire(f)
      PROVE  AuthInv' /\ RevokedStep
  BY <1>4, ExpireKeeps
<1>5. ASSUME NEW p \in Callers, Serve(p)
      PROVE  AuthInv' /\ RevokedStep
  <2>1. CASE Start(p) \/ Hash(p) \/ CheckedAccount(p) \/ CheckPending(p)
    BY <2>1, StartKeeps, HashKeeps, CheckedAccountKeeps, CheckPendingKeeps
  <2>2. CASE Login(p) \/ DeleteAccount(p)
    BY <2>2, LoginKeeps, DeleteKeeps
  <2>3. CASE ChangePassword(p)
    <3>1. At(p, "password") \/ At(p, "sessions")
      BY <2>3 DEF ChangePassword
    <3> QED BY <2>3, <3>1, AccountStepsKeep, RevocationsKeep
  <2>4. CASE Refresh(p)
    <3>1. At(p, "refresh") \/ At(p, "owner")
      BY <2>4 DEF Refresh
    <3> QED BY <2>4, <3>1, RotateKeeps, OwnerKeeps
  <2>5. CASE Logout(p) \/ RevokeSessions(p)
    BY <2>5, RevocationsKeep
  <2>6. CASE EnableTOTP(p) \/ Confirm(p) \/ TotpOff(p) \/ CreateAccount(p) \/ UpdateAccount(p)
    BY <2>6, AccountStepsKeep
  <2> QED BY <1>5, <2>1, <2>2, <2>3, <2>4, <2>5, <2>6 DEF Serve
<1> QED BY <1>1, <1>2, <1>3, <1>4, <1>5 DEF Next

\* AuthInv holds in every reachable state.
THEOREM AuthInvariant == Spec => []AuthInv
<1>1. Init => AuthInv
  BY InitAuthInv
<1>2. AuthInv /\ [Next]_vars => AuthInv'
  BY NextAuthInv
<1> QED BY <1>1, <1>2, PTL DEF Spec

\* An enabled administrator remains in memory and in the file: ErrLastAdmin holds against
\* any order of deletions, demotions and disabling, failed writes and restarts (accounts.go).
THEOREM AdminIsKept == Spec => []AdminRemains
<1>1. AuthInv => AdminRemains
  BY AdminCount DEF AuthInv, AdminInv, AdminRemains
<1> QED BY <1>1, AuthInvariant, PTL

\* No refresh token is exchanged twice, and the file knows every token that was handed out
\* until its account is deleted (Rotate and NewFamily write before they answer).
THEOREM TokensAreSingleUse == Spec => []SingleUse
<1>1. AuthInv => SingleUse
  <2> SUFFICES ASSUME AuthInv PROVE SingleUse
    OBVIOUS
  <2>1. TypeOK
    BY DEF TypeOK, AuthInv, Typed, StoreT, FamT, RequestT
  <2>2. \A t \in Token : uses[t] <= 1
    BY DEF AuthInv, SessionInv, UsesOk
  <2>3. \A t \in handed : disk.fam[t[1]] # NoFam => t[2] <= disk.fam[t[1]].cur
    BY DEF AuthInv, SessionInv, FamiliesOk, Known
  <2>4. \A t \in handed : disk.fam[t[1]].cur # 0 \/ t[1] \in dropped
    BY DEF AuthInv, SessionInv, Kept, Known
  <2>5. NoFam.cur = 0
    BY DEF NoFam
  <2>6. \A t \in handed : t[2] <= disk.fam[t[1]].cur \/ (disk.fam[t[1]] = NoFam /\ t[1] \in dropped)
    BY <2>3, <2>4, <2>5
  <2> QED BY <2>1, <2>2, <2>6 DEF SingleUse
<1> QED BY <1>1, AuthInvariant, PTL

\* A revocation that reached the file is final: logout, detected reuse, password change,
\* session revocation and deletion end their families for every later refresh (accounts.go).
THEOREM RevocationIsFinal == Spec => RevokedStays
<1>1. AuthInv /\ [Next]_vars => [\A t \in Token : t[1] \in ended => uses'[t] = uses[t]]_vars
  BY NextAuthInv DEF RevokedStep
<1> QED BY <1>1, AuthInvariant, PTL DEF Spec, RevokedStays
===============================================================================
