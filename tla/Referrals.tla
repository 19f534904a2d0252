---------------------------- MODULE Referrals ----------------------------
(***************************************************************************)
(* Who brought whom, the commissions a payment leaves, and the two ways a  *)
(* leader is paid: money, which an administrator confirms or refuses, and  *)
(* tokens, at once.                                                        *)
(***************************************************************************)
EXTENDS MoneyState

\* register: looks for a row of this referee, and then, in one transaction,
\* inserts it unless another request has, and gives the bonus.
Register(c, u, l) ==
    /\ call[c] = Idle /\ l # u /\ u \in welcomed /\ leader[u] = NoOne
    /\ call' = [call EXCEPT ![c] = [Idle EXCEPT !.at = "enrol", !.who = u, !.to = l]]
    /\ UNCHANGED <<purse, trade, fame, perks, chores, failures>>
Inserted(u) == leader[u] = NoOne
Enrol(c) ==
    LET u == call[c].who IN
    /\ call[c].at = "enrol" /\ Done(c)
    /\ IF Inserted(u)
       THEN /\ leader' = [leader EXCEPT ![u] = call[c].to]
            /\ IF u \in profile
               THEN Add(u, Gift) /\ gifts' = [gifts EXCEPT ![u]["referral"] = @ + 1]
               ELSE UNCHANGED <<purse, gifts>>
       ELSE UNCHANGED <<leader, purse, gifts>>
    /\ UNCHANGED <<trade, commissions, unpaid, notified, claims,
                   couponLock, welcomed, merged, chores, failures>>

\* processPaymentCommission, after the credit: a row for the leader, a row for
\* the leader's own leader, then the notices.  Each is a statement of its own.
Commission(p, l, level, c) == [of |-> p, to |-> l, level |-> level, by |-> c]
Insert(k) == commissions' = commissions \cup {k} /\ unpaid' = unpaid \cup {k}
PayLeader(c) ==
    LET l == leader[call[c].who] IN
    /\ call[c].at = "commission"
    /\ IF l = NoOne
       THEN Done(c) /\ UNCHANGED <<commissions, unpaid>>
       ELSE /\ Insert(Commission(call[c].about, l, 1, c))
            /\ call' = [call EXCEPT ![c].at = IF Upper[l] = NoOne THEN "notice" ELSE "upper",
                                    ![c].to = l]
    /\ UNCHANGED <<purse, trade, leader, notified, claims, perks, chores, failures>>
PayUpper(c) ==
    /\ call[c].at = "upper" /\ Go(c, "notice")
    /\ Insert(Commission(call[c].about, Upper[call[c].to], 2, c))
    /\ UNCHANGED <<purse, trade, leader, notified, claims, perks, chores, failures>>

EverDue(l) == {k \in commissions : k.to = l}
Due(l) == {k \in unpaid : k.to = l}
Worth(ks) == Cardinality(ks)

\* notifyPayoutIfReady: what is due is read, the message is sent, and only
\* then is the leader marked as told.
AfterNotice(c) ==
    IF call[c].at \in {"notice", "noticed"} /\ Upper[call[c].to] # NoOne
    THEN Go(c, "noticeUpper") ELSE Done(c)
Told(c) == IF call[c].at \in {"notice", "noticed"} THEN call[c].to ELSE Upper[call[c].to]
ReadNotice(c) ==
    /\ call[c].at \in {"notice", "noticeUpper"}
    /\ \/ /\ Told(c) \notin notified /\ Worth(Due(Told(c))) >= WithdrawMin
          /\ Go(c, IF call[c].at = "notice" THEN "noticed" ELSE "noticedUpper")
       \/ AfterNotice(c)       \* told already, too little, or the message was not sent
    /\ UNCHANGED <<purse, trade, fame, perks, chores, failures>>
MarkNotified(c) ==
    /\ call[c].at \in {"noticed", "noticedUpper"} /\ AfterNotice(c)
    /\ notified' = notified \cup {Told(c)}
    /\ UNCHANGED <<purse, trade, leader, commissions, unpaid, claims, perks, chores, failures>>

Claim(l, kind, state) == [by |-> l, kind |-> kind, of |-> Due(l), state |-> state]
Reserve(claim) ==
    /\ Len(claims) < MaxClaims
    /\ claims' = Append(claims, claim)
    /\ unpaid' = unpaid \ claim.of
    /\ notified' = notified \ {claim.by}
RequestWithdrawal(l) ==
    /\ Worth(Due(l)) >= WithdrawMin /\ Reserve(Claim(l, "money", "pending"))
    /\ UNCHANGED <<purse, trade, leader, commissions, perks, chores, call, failures>>
PayableToAnyone(l) == l \in Users
Payable(l) == l \in profile
PayoutTokens(l) ==
    /\ Worth(Due(l)) >= PayoutMin /\ Payable(l)
    /\ Reserve(Claim(l, "tokens", "paid")) /\ Add(l, Worth(Due(l)))
    /\ UNCHANGED <<trade, leader, commissions, perks, chores, call, failures>>

Open(i) == claims[i].kind = "money" /\ claims[i].state = "pending"
ProcessWithdrawal(i, decision) ==
    /\ Open(i)
    /\ claims' = [claims EXCEPT ![i].state = decision]
    /\ unpaid' = IF decision = "rejected" THEN unpaid \cup claims[i].of ELSE unpaid
    /\ UNCHANGED <<purse, trade, leader, commissions, notified, perks, chores, call, failures>>

ReferralStep(c) ==
    \/ Enrol(c) \/ PayLeader(c) \/ PayUpper(c) \/ ReadNotice(c) \/ MarkNotified(c)
ReferralsNext ==
    \/ \E c \in Callers, u, l \in Users : Register(c, u, l)
    \/ \E c \in Callers : ReferralStep(c)
    \/ \E l \in Users : RequestWithdrawal(l) \/ PayoutTokens(l)
    \/ \E i \in DOMAIN claims, d \in {"paid", "rejected"} : ProcessWithdrawal(i, d)
=============================================================================
