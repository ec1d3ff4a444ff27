--------------------------- MODULE AccountsProofs ---------------------------
(***************************************************************************)
(* Proofs about Accounts, for any number of slots, tokens and lapses.       *)
(***************************************************************************)
EXTENDS Accounts, FiniteSetTheorems, TLAPS

\* The steps, grouped by what they touch.
AccountStep ==
    \/ \E s \in Slots : Register(s) \/ LookUp(s) \/ WrongPassword(s) \/ RightPassword(s)
    \/ LockRunsOut

TokenStep ==
    \/ \E s \in Slots : Issue(s) \/ Logout(s) \/ Fails(s) \/ \E t \in Tokens : Refresh(s, t)
    \/ \E t \in Tokens : TokenExpires(t)

\* The two groups are all there is.
LEMMA StepKinds == Next <=> AccountStep \/ TokenStep
  BY DEF Next, Handle, AccountStep, TokenStep

\* The initial state has the types.
LEMMA TypeInit == Init => AccountsTypeOK
<1> SUFFICES ASSUME Init PROVE AccountsTypeOK
  OBVIOUS
<1>1. lapses \in 0..MaxLapses /\ failed \in Nat
  BY AccountsAssumption DEF Init, AccountsAssumption
<1>2. /\ registered \in BOOLEAN /\ locked \in BOOLEAN /\ failed = 0
      /\ pc \in [Slots -> {"idle", "compare", "issue"}] /\ \A s \in Slots : At(s, "idle")
  BY DEF Init, At
<1>3. AccountTypeOK
  BY <1>1, <1>2 DEF AccountTypeOK
<1>4. TokenTypeOK
  BY DEF Init, TokenTypeOK, Drawn, Sessions
<1> QED
  BY <1>3, <1>4 DEF AccountsTypeOK

\* Registration, login and lapses keep the types.
LEMMA TypeAccountStep == AccountsTypeOK /\ AccountStep => AccountsTypeOK'
<1> SUFFICES ASSUME AccountsTypeOK, AccountStep PROVE AccountsTypeOK'
  OBVIOUS
<1>1. AccountTypeOK'
  <2> USE AccountsAssumption DEF AccountsAssumption, AccountTypeOK, AccountsTypeOK, At, Goto
  <2>1. ASSUME NEW s \in Slots, Register(s) PROVE AccountTypeOK'
    BY <2>1 DEF Register
  <2>2. ASSUME NEW s \in Slots, LookUp(s) PROVE AccountTypeOK'
    BY <2>2 DEF LookUp, accountVars
  <2>3. ASSUME NEW s \in Slots, WrongPassword(s) PROVE AccountTypeOK'
    BY <2>3 DEF WrongPassword
  <2>4. ASSUME NEW s \in Slots, RightPassword(s) PROVE AccountTypeOK'
    BY <2>4 DEF RightPassword
  <2>5. ASSUME LockRunsOut PROVE AccountTypeOK'
    <3>1. lapses' \in 0..MaxLapses
      BY <2>5 DEF LockRunsOut
    <3>2. /\ registered' = registered /\ failed' = failed /\ pc' = pc /\ locked' = FALSE
      BY <2>5 DEF LockRunsOut
    <3> QED
      BY <3>1, <3>2
  <2> QED
    BY <2>1, <2>2, <2>3, <2>4, <2>5 DEF AccountStep
<1>2. root' = root /\ table' = table /\ ended' = ended /\ (registered => registered')
  BY DEF AccountStep, Register, LookUp, WrongPassword, RightPassword, LockRunsOut,
         accountVars, tokenVars
<1>3. session' \in [Slots -> Sessions \cup {Nil}]
  BY DEF AccountsTypeOK, TokenTypeOK, AccountStep, Register, LookUp, WrongPassword,
         RightPassword, LockRunsOut, accountVars, tokenVars
<1>4. TokenTypeOK'
  BY <1>2, <1>3 DEF AccountsTypeOK, TokenTypeOK, Drawn, Sessions
<1> QED
  BY <1>1, <1>4 DEF AccountsTypeOK

\* A drawn token belongs to a session, and the account is there.
LEMMA TokensBelong ==
    ASSUME AccountsTypeOK, NEW t \in table
    PROVE  t \in Tokens /\ root[t] \in Sessions /\ registered
  BY DEF AccountsTypeOK, TokenTypeOK, Drawn

\* What drawing a token does to the sessions.
LEMMA Drawing ==
    ASSUME AccountsTypeOK, NEW s \in Slots, NEW t \in Tokens \ Drawn,
           root' = [root EXCEPT ![t] = IF session[s] = Nil THEN t ELSE session[s]]
    PROVE  /\ root' \in [Tokens -> Tokens \cup {Nil}]
           /\ root'[t] = IF session[s] = Nil THEN t ELSE session[s]
           /\ \A u \in Tokens \ {t} : root'[u] = root[u]
           /\ Drawn' = Drawn \cup {t}
           /\ Sessions' = IF session[s] = Nil THEN Sessions \cup {t} ELSE Sessions
           /\ Sessions \subseteq Sessions' /\ root'[t] \in Sessions'
           /\ t \notin Sessions /\ session[s] \in Sessions \cup {Nil}
<1> USE AccountsAssumption DEF AccountsAssumption
<1>1. session[s] \in Sessions \cup {Nil} /\ root \in [Tokens -> Tokens \cup {Nil}]
  BY DEF AccountsTypeOK, TokenTypeOK
<1>2. t \in Tokens /\ root[t] = Nil /\ t # Nil
  BY DEF Drawn
<1>3. session[s] # Nil => session[s] \in Tokens /\ session[s] # t
  BY <1>1, <1>2 DEF Sessions
<1>4. /\ root'[t] = IF session[s] = Nil THEN t ELSE session[s]
      /\ \A u \in Tokens \ {t} : root'[u] = root[u]
  BY <1>1, <1>2
<1>5. root' \in [Tokens -> Tokens \cup {Nil}]
  BY <1>1, <1>2, <1>3
<1>6. Drawn' = Drawn \cup {t}
  BY <1>2, <1>3, <1>4 DEF Drawn
<1>7. Sessions' = IF session[s] = Nil THEN Sessions \cup {t} ELSE Sessions
  BY <1>2, <1>3, <1>4 DEF Sessions
<1>8. t \notin Sessions
  BY <1>2 DEF Sessions
<1>9. root'[t] \in Sessions'
  BY <1>1, <1>4, <1>7
<1>10. Sessions \subseteq Sessions'
  BY <1>7
<1> QED
  BY <1>1, <1>4, <1>5, <1>6, <1>7, <1>8, <1>9, <1>10

\* Steps on tokens keep the types.
LEMMA TypeTokenStep == AccountsTypeOK /\ TokenStep => AccountsTypeOK'
<1> SUFFICES ASSUME AccountsTypeOK, TokenStep PROVE AccountsTypeOK'
  OBVIOUS
<1> USE DEF AccountsTypeOK
<1>1. ASSUME NEW s \in Slots, Issue(s) PROVE AccountsTypeOK'
  <2>0. AccountsTypeOK
    OBVIOUS
  <2>1. PICK t \in Tokens \ Drawn :
          /\ root' = [root EXCEPT ![t] = IF session[s] = Nil THEN t ELSE session[s]]
          /\ table' = table \cup {t}
    BY <1>1 DEF Issue
  <2>2. AccountTypeOK'
    BY <1>1 DEF Issue, AccountTypeOK, At, Goto, accountVars
  <2>3. registered'
    BY <1>1 DEF Issue, AccountTypeOK, At, accountVars
  <2>4. /\ root' \in [Tokens -> Tokens \cup {Nil}]
        /\ root'[t] \in Sessions' /\ Sessions \subseteq Sessions'
        /\ \A u \in Tokens \ {t} : root'[u] = root[u]
        /\ Drawn' = Drawn \cup {t}
    BY <2>1, <2>0, Drawing
  <2>5. \A u \in Drawn' : root'[u] \in Sessions'
    BY <2>4 DEF TokenTypeOK, Drawn
  <2>6. session' \in [Slots -> Sessions' \cup {Nil}] /\ ended' \subseteq Sessions'
    BY <1>1, <2>4 DEF TokenTypeOK, Issue
  <2>7. table' \subseteq Drawn'
    BY <2>1, <2>4 DEF TokenTypeOK
  <2> QED
    BY <2>2, <2>3, <2>4, <2>5, <2>6, <2>7 DEF TokenTypeOK
<1>2. ASSUME NEW s \in Slots, Logout(s) \/ Fails(s) PROVE AccountsTypeOK'
  <2>1. AccountTypeOK'
    BY <1>2 DEF Logout, Fails, AccountTypeOK, At, Goto, accountVars
  <2>2. /\ root' = root /\ session' = session /\ registered' = registered
        /\ table' \subseteq table /\ ended' \subseteq Sessions
    BY <1>2 DEF Logout, Fails, TokenTypeOK, accountVars, tokenVars
  <2> QED
    BY <2>1, <2>2 DEF TokenTypeOK, Drawn, Sessions
<1>3. ASSUME NEW s \in Slots, NEW t \in Tokens, Refresh(s, t) PROVE AccountsTypeOK'
  <2>1. t \in table /\ registered /\ root[t] \in Sessions
    BY <1>3, TokensBelong DEF Refresh
  <2>2. AccountTypeOK'
    BY <1>3, <2>1 DEF Refresh, AccountTypeOK, At, Goto, accountVars
  <2>3. session' \in [Slots -> Sessions \cup {Nil}]
    BY <1>3, <2>1 DEF Refresh, TokenTypeOK
  <2> QED
    BY <1>3, <2>2, <2>3 DEF Refresh, TokenTypeOK, Drawn, Sessions, accountVars
<1>4. ASSUME NEW t \in Tokens, TokenExpires(t) PROVE AccountsTypeOK'
  BY <1>4 DEF TokenExpires, AccountTypeOK, TokenTypeOK, Drawn, Sessions, At, accountVars
<1> QED
  BY <1>1, <1>2, <1>3, <1>4 DEF TokenStep

\* AccountsTypeOK: the users row, the handlers and the tokens always fit.
THEOREM AccountsTypeCorrect == Spec => []AccountsTypeOK
<1>1. AccountsTypeOK /\ [Next]_vars => AccountsTypeOK'
  <2>1. AccountsTypeOK /\ Next => AccountsTypeOK'
    BY StepKinds, TypeAccountStep, TypeTokenStep
  <2>2. AccountsTypeOK /\ UNCHANGED vars => AccountsTypeOK'
    BY DEF AccountsTypeOK, AccountTypeOK, TokenTypeOK, vars, Drawn, Sessions, At
  <2> QED
    BY <2>1, <2>2
<1> QED
  BY TypeInit, <1>1, PTL DEF Spec

-----------------------------------------------------------------------------
(* Rotation and logout.  Both invariants speak of the same two sets: the    *)
(* sessions with a token in the table, and those whose next token is on its  *)
(* way; what changes them is drawing, claiming and dropping a token.        *)

SessionInv == AccountsTypeOK /\ OneTokenPerSession /\ LogoutEnds

\* A session on its way is named by a slot that issues.
LEMMA RotatingSlots ==
    ASSUME NEW c
    PROVE  c \in Rotating <=> c # Nil /\ \E s \in Slots : At(s, "issue") /\ session[s] = c
  BY DEF Rotating

\* Account steps only end requests or start a session that has no name yet.
LEMMA SessionAccountStep == SessionInv /\ AccountStep => OneTokenPerSession' /\ LogoutEnds'
<1> SUFFICES ASSUME SessionInv, AccountStep PROVE OneTokenPerSession' /\ LogoutEnds'
  OBVIOUS
<1>0. /\ pc \in [Slots -> {"idle", "compare", "issue"}]
      /\ session \in [Slots -> Sessions \cup {Nil}]
      /\ \A t \in table : root[t] \in Tokens /\ root[t] # Nil
  BY AccountsAssumption
  DEF SessionInv, AccountsTypeOK, AccountTypeOK, TokenTypeOK, Sessions, Drawn, AccountsAssumption
<1>1. root' = root /\ table' = table /\ ended' = ended
  BY DEF AccountStep, Register, LookUp, WrongPassword, RightPassword, LockRunsOut,
         accountVars, tokenVars
<1>2. \A s \in Slots : At(s, "issue")' =>
        session'[s] = Nil \/ (At(s, "issue") /\ session'[s] = session[s])
  <2>1. ASSUME NEW r \in Slots,
               Register(r) \/ LookUp(r) \/ WrongPassword(r) \/ RightPassword(r)
        PROVE  \A s \in Slots : At(s, "issue")' =>
                 session'[s] = Nil \/ (At(s, "issue") /\ session'[s] = session[s])
    BY <2>1, <1>0 DEF Register, LookUp, WrongPassword, RightPassword, At, Goto, tokenVars
  <2>2. LockRunsOut => pc' = pc /\ session' = session
    BY DEF LockRunsOut, tokenVars
  <2> QED
    BY <2>1, <2>2 DEF AccountStep, At
<1>3. Rotating' \subseteq Rotating
  BY <1>2, RotatingSlots DEF Rotating
<1>4. OneTokenPerSession'
  BY <1>0, <1>1, <1>2 DEF SessionInv, OneTokenPerSession
<1>5. LogoutEnds'
  BY <1>1, <1>3 DEF SessionInv, LogoutEnds
<1> QED
  BY <1>4, <1>5

\* Token steps.
LEMMA SessionTokenStep == SessionInv /\ TokenStep => OneTokenPerSession' /\ LogoutEnds'
<1> SUFFICES ASSUME SessionInv, TokenStep PROVE OneTokenPerSession' /\ LogoutEnds'
  OBVIOUS
<1>0. AccountsTypeOK /\ Nil \notin Tokens
  BY AccountsAssumption DEF SessionInv, AccountsAssumption
<1>1. /\ pc \in [Slots -> {"idle", "compare", "issue"}]
      /\ session \in [Slots -> Sessions \cup {Nil}]
      /\ table \subseteq Drawn /\ ended \subseteq Sessions
      /\ \A t \in Drawn : root[t] \in Sessions
  BY <1>0 DEF AccountsTypeOK, AccountTypeOK, TokenTypeOK
<1>2. ASSUME NEW s \in Slots, Issue(s) PROVE OneTokenPerSession' /\ LogoutEnds'
  <2>1. PICK t \in Tokens \ Drawn :
          /\ root' = [root EXCEPT ![t] = IF session[s] = Nil THEN t ELSE session[s]]
          /\ table' = table \cup {t}
    BY <1>2 DEF Issue
  <2>2. /\ root'[t] = IF session[s] = Nil THEN t ELSE session[s]
        /\ \A u \in Tokens \ {t} : root'[u] = root[u]
        /\ t \notin Sessions /\ session[s] \in Sessions \cup {Nil}
    BY <2>1, <1>0, Drawing
  <2>3. t \in Tokens /\ t \notin table /\ \A u \in table : u \in Tokens /\ u # t /\ root'[u] = root[u]
    BY <2>1, <2>2, <1>1 DEF Drawn
  <2>4. \A r \in Slots : At(r, "issue")' => r # s /\ At(r, "issue")
    BY <1>2, <1>1 DEF Issue, At, Goto
  <2>5. session' = session /\ ended' = ended /\ At(s, "issue")
    BY <1>2 DEF Issue
  <2>6. \A u \in table : root[u] # root'[t]
    BY <2>2, <2>5, <1>1 DEF SessionInv, OneTokenPerSession
  <2>7. \A r \in Slots : At(r, "issue")' => session[r] # root'[t]
    BY <2>2, <2>4, <2>5, <1>0, <1>1 DEF SessionInv, OneTokenPerSession
  <2>8. OneTokenPerSession'
    BY <2>1, <2>3, <2>4, <2>5, <2>6, <2>7 DEF SessionInv, OneTokenPerSession
  <2>9. root'[t] \notin ended
    <3>1. CASE session[s] = Nil
      BY <3>1, <2>2, <1>1
    <3>2. CASE session[s] # Nil
      BY <3>2, <2>2, <2>5, RotatingSlots DEF SessionInv, LogoutEnds
    <3> QED
      BY <3>1, <3>2
  <2>10. Rotating' \subseteq Rotating
    BY <2>4, <2>5 DEF Rotating
  <2>11. LogoutEnds'
    BY <2>1, <2>3, <2>5, <2>9, <2>10 DEF SessionInv, LogoutEnds
  <2> QED
    BY <2>8, <2>11
<1>3. ASSUME NEW s \in Slots, Logout(s) PROVE OneTokenPerSession' /\ LogoutEnds'
  <2>1. /\ table' = {} /\ ended' = ended \cup (Sessions \ Rotating)
        /\ pc' = pc /\ session' = session
    BY <1>3 DEF Logout
  <2>2. Rotating' = Rotating
    BY <2>1 DEF Rotating, At
  <2> QED
    BY <2>1, <2>2 DEF SessionInv, OneTokenPerSession, LogoutEnds, At
<1>4. ASSUME NEW s \in Slots, Fails(s) PROVE OneTokenPerSession' /\ LogoutEnds'
  <2>1. table' = table /\ root' = root /\ session' = session /\ ended' = ended
    BY <1>4 DEF Fails, tokenVars
  <2>2. \A r \in Slots : At(r, "issue")' => At(r, "issue")
    BY <1>4, <1>1 DEF Fails, At, Goto
  <2>3. Rotating' \subseteq Rotating
    BY <2>1, <2>2 DEF Rotating
  <2> QED
    BY <2>1, <2>2, <2>3 DEF SessionInv, OneTokenPerSession, LogoutEnds
<1>5. ASSUME NEW s \in Slots, NEW t \in Tokens, Refresh(s, t) PROVE OneTokenPerSession' /\ LogoutEnds'
  <2>1. /\ t \in table /\ table' = table \ {t} /\ root' = root /\ ended' = ended
        /\ root[t] \in Sessions /\ root[t] # Nil
    BY <1>5, <1>1, <1>0 DEF Refresh, Sessions
  <2>2. \A r \in Slots : At(r, "issue")' =>
          IF r = s THEN session'[r] = root[t] ELSE At(r, "issue") /\ session'[r] = session[r]
    BY <1>5, <1>1 DEF Refresh, At, Goto
  <2>3. \A u \in table \ {t} : root[u] # root[t]
    BY <2>1 DEF SessionInv, OneTokenPerSession
  <2>4. \A r \in Slots : At(r, "issue") => session[r] # root[t]
    BY <2>1 DEF SessionInv, OneTokenPerSession
  <2>5. OneTokenPerSession'
    BY <2>1, <2>2, <2>3, <2>4 DEF SessionInv, OneTokenPerSession
  <2>6. Rotating' \subseteq Rotating \cup {root[t]}
    BY <2>2 DEF Rotating
  <2>7. LogoutEnds'
    BY <2>1, <2>6 DEF SessionInv, LogoutEnds
  <2> QED
    BY <2>5, <2>7
<1>6. ASSUME NEW t \in Tokens, TokenExpires(t) PROVE OneTokenPerSession' /\ LogoutEnds'
  <2>1. /\ table' \subseteq table /\ root' = root /\ session' = session /\ ended' = ended
        /\ pc' = pc
    BY <1>6 DEF TokenExpires
  <2>2. Rotating' = Rotating
    BY <2>1 DEF Rotating, At
  <2> QED
    BY <2>1, <2>2 DEF SessionInv, OneTokenPerSession, LogoutEnds, At
<1> QED
  BY <1>2, <1>3, <1>4, <1>5, <1>6 DEF TokenStep

\* The invariant of rotation and logout.
LEMMA SessionCorrect == Spec => []SessionInv
<1>1. Init => SessionInv
  <2> SUFFICES ASSUME Init PROVE OneTokenPerSession /\ LogoutEnds
    BY TypeInit DEF SessionInv
  <2>1. table = {} /\ ended = {} /\ \A s \in Slots : ~At(s, "issue")
    BY DEF Init, At
  <2> QED
    BY <2>1 DEF OneTokenPerSession, LogoutEnds
<1>2. SessionInv /\ [Next]_vars => SessionInv'
  <2>1. SessionInv /\ Next => SessionInv'
    BY StepKinds, TypeAccountStep, TypeTokenStep, SessionAccountStep, SessionTokenStep DEF SessionInv
  <2>2. SessionInv /\ UNCHANGED vars => SessionInv'
    BY DEF SessionInv, AccountsTypeOK, AccountTypeOK, TokenTypeOK, vars, Drawn, Sessions, At,
           OneTokenPerSession, LogoutEnds, Rotating
  <2> QED
    BY <2>1, <2>2
<1> QED
  BY <1>1, <1>2, PTL DEF Spec

\* OneTokenPerSession: exchanging one token twice gives one session, never two.
THEOREM RotationIsSingleUse == Spec => []OneTokenPerSession
  BY SessionCorrect, PTL DEF SessionInv

\* LogoutEnds: what a logout has ended stays ended.
THEOREM LogoutIsForAll == Spec => []LogoutEnds
  BY SessionCorrect, PTL DEF SessionInv

-----------------------------------------------------------------------------
(* The lockout.                                                             *)

\* The requests that have passed the lockout check.
Comparing == {s \in Slots : At(s, "compare")}

\* They are finitely many, and the allowance grows with each lapse by as many as
\* there can be.
LEMMA Sizes ==
    ASSUME AccountTypeOK
    PROVE  /\ Cardinality(Slots) \in Nat /\ Cardinality(Comparing) \in Nat
           /\ Cardinality(Comparing) <= Cardinality(Slots) /\ IsFiniteSet(Comparing)
           /\ Allowance \in Int /\ Allowance >= MaxFailed - 1
<1>1. IsFiniteSet(Slots) /\ Comparing \subseteq Slots
  BY AccountsAssumption DEF AccountsAssumption, Comparing
<1>2. /\ Cardinality(Slots) \in Nat /\ Cardinality(Comparing) \in Nat
      /\ Cardinality(Comparing) <= Cardinality(Slots) /\ IsFiniteSet(Comparing)
  BY <1>1, FS_Subset, FS_CardinalityType
<1>3. lapses \in Nat /\ MaxFailed \in Nat
  BY AccountsAssumption DEF AccountTypeOK, AccountsAssumption
<1>4. Cardinality(Slots) * lapses \in Nat
  BY <1>2, <1>3
<1> QED
  BY <1>2, <1>3, <1>4 DEF Allowance

\* A request that leaves the comparison makes one less.
LEMMA OneLess ==
    ASSUME AccountTypeOK, NEW s \in Slots, At(s, "compare"), Goto(s, "idle")
    PROVE  Cardinality(Comparing') = Cardinality(Comparing) - 1
<1>1. Comparing' = Comparing \ {s} /\ s \in Comparing
  BY DEF AccountTypeOK, Comparing, At, Goto
<1> QED
  BY <1>1, Sizes, FS_RemoveElement

GuessInv == AccountsTypeOK /\ GuessesBounded

\* Every step keeps the bound: only WrongPassword counts, and only LockRunsOut
\* widens the allowance.
LEMMA GuessStep == GuessInv /\ [Next]_vars => GuessesBounded'
<1> SUFFICES ASSUME GuessInv, [Next]_vars PROVE GuessesBounded'
  OBVIOUS
<1> DEFINE Bound == IF locked
                    THEN failed + Cardinality(Comparing) <= Allowance + Cardinality(Slots)
                    ELSE failed <= Allowance
<1>0. AccountTypeOK /\ Bound /\ (GuessesBounded' <=> Bound')
  BY DEF GuessInv, AccountsTypeOK, GuessesBounded, Comparing, At
<1>1. SUFFICES Bound'
  BY <1>0
<1>2. failed \in Nat /\ lapses \in Nat /\ MaxFailed \in Nat
  BY <1>0, AccountsAssumption DEF AccountTypeOK, AccountsAssumption
<1>3. ASSUME NEW s \in Slots, Register(s) PROVE Bound'
  <2>1. failed' = failed /\ locked' = locked /\ lapses' = lapses /\ Comparing' = Comparing
    BY <1>3, <1>0 DEF Register, Comparing, At, Goto, AccountTypeOK
  <2> QED
    BY <2>1, <1>0 DEF Allowance
<1>4. ASSUME NEW s \in Slots, LookUp(s) PROVE Bound'
  <2>1. failed' = failed /\ locked' = locked /\ lapses' = lapses /\ ~locked
    BY <1>4 DEF LookUp, accountVars
  <2> QED
    BY <2>1, <1>0 DEF Allowance
<1>5. ASSUME NEW s \in Slots, WrongPassword(s) PROVE Bound'
  <2>1. /\ failed' = failed + 1 /\ locked' = (locked \/ failed + 1 >= MaxFailed)
        /\ lapses' = lapses
        /\ Cardinality(Comparing') = Cardinality(Comparing) - 1
    BY <1>5, <1>0, OneLess DEF WrongPassword
  <2>2. Allowance' = Allowance
    BY <2>1 DEF Allowance
  <2>3. failed + Cardinality(Comparing) <= Allowance + Cardinality(Slots)
    BY <1>0, <1>2, Sizes
  <2>4. ASSUME locked' PROVE Bound'
    BY <2>1, <2>2, <2>3, <2>4, <1>0, <1>2, Sizes
  <2>5. ASSUME ~locked' PROVE Bound'
    <3>1. ~(failed + 1 >= MaxFailed)
      BY <2>1, <2>5
    <3>2. failed + 1 <= MaxFailed - 1
      BY <3>1, <1>2
    <3>3. Allowance \in Int /\ Allowance >= MaxFailed - 1
      BY <1>0, Sizes
    <3>4. failed' <= Allowance'
      BY <3>2, <3>3, <2>1, <2>2, <1>2
    <3> QED
      BY <3>4, <2>5
  <2> QED
    BY <2>4, <2>5
<1>6. ASSUME NEW s \in Slots, RightPassword(s) PROVE Bound'
  <2>1. failed' = 0 /\ ~locked' /\ lapses' = lapses
    BY <1>6 DEF RightPassword
  <2>2. Allowance' = Allowance /\ Allowance >= 0
    BY <2>1, <1>0, Sizes, AccountsAssumption DEF Allowance, AccountsAssumption
  <2> QED
    BY <2>1, <2>2
<1>7. ASSUME LockRunsOut PROVE Bound'
  <2>1. locked /\ ~locked' /\ failed' = failed /\ lapses' = lapses + 1
    BY <1>7 DEF LockRunsOut
  <2>2. Cardinality(Slots) * (lapses + 1) = Cardinality(Slots) * lapses + Cardinality(Slots)
    BY <1>0, <1>2, Sizes
  <2>3. Allowance' = Allowance + Cardinality(Slots)
    BY <2>1, <2>2, <1>0, <1>2, Sizes DEF Allowance
  <2> QED
    BY <2>1, <2>3, <1>0, <1>2, Sizes
<1>8. ASSUME NEW s \in Slots, Fails(s) PROVE Bound'
  <2>1. failed' = failed /\ locked' = locked /\ lapses' = lapses
    BY <1>8 DEF Fails, accountVars
  <2>2. Comparing' \subseteq Comparing
    BY <1>8, <1>0 DEF Fails, Comparing, At, Goto, AccountTypeOK
  <2>3. Cardinality(Comparing') <= Cardinality(Comparing) /\ Cardinality(Comparing') \in Nat
    BY <2>2, <1>0, Sizes, FS_Subset, FS_CardinalityType
  <2>4. Allowance' = Allowance
    BY <2>1 DEF Allowance
  <2> QED
    BY <2>1, <2>3, <2>4, <1>0, <1>2, Sizes
<1>9. ASSUME NEW s \in Slots, Issue(s) \/ Logout(s) \/ \E t \in Tokens : Refresh(s, t) PROVE Bound'
  <2>1. failed' = failed /\ locked' = locked /\ lapses' = lapses /\ Comparing' = Comparing
    BY <1>9, <1>0 DEF Issue, Logout, Refresh, Comparing, At, Goto, AccountTypeOK, accountVars
  <2> QED
    BY <2>1, <1>0 DEF Allowance
<1>10. ASSUME NEW t \in Tokens, TokenExpires(t) PROVE Bound'
  BY <1>10, <1>0 DEF TokenExpires, Comparing, At, Allowance, accountVars
<1>11. CASE UNCHANGED vars
  BY <1>11, <1>0 DEF vars, Comparing, At, Allowance
<1> QED
  BY <1>3, <1>4, <1>5, <1>6, <1>7, <1>8, <1>9, <1>10, <1>11 DEF Next, Handle

\* GuessesBounded: the lockout cannot be outrun by sending guesses at once.
THEOREM LockoutHolds == Spec => []GuessesBounded
<1>1. Init => GuessesBounded
  <2> SUFFICES ASSUME Init PROVE GuessesBounded
    OBVIOUS
  <2>1. AccountTypeOK /\ failed = 0 /\ ~locked
    BY TypeInit DEF AccountsTypeOK, Init
  <2>2. Allowance >= 0 /\ Allowance \in Int
    BY <2>1, Sizes, AccountsAssumption DEF AccountsAssumption
  <2> QED
    BY <2>1, <2>2 DEF GuessesBounded
<1>2. AccountsTypeOK /\ GuessesBounded /\ [Next]_vars => GuessesBounded'
  BY GuessStep DEF GuessInv
<1> QED
  BY <1>1, <1>2, AccountsTypeCorrect, PTL DEF Spec
=============================================================================
