-------------------------- MODULE SubmissionProofs --------------------------
(***************************************************************************)
(* Proofs about Submission and the conversations of Conversation, for any  *)
(* conversations, users, messages and requests, any lengths of context and *)
(* of the users' lists, and any number of calls and restarts.              *)
(***************************************************************************)
EXTENDS Submission, SequenceTheorems, TLAPS

-----------------------------------------------------------------------------
(* Types. *)

Objects == [user : Users, msgs : Seq(Msgs)]

\* What is kept of the conversations.
ConvTypeOK ==
    /\ conversations \in [Convs -> SUBSET Objects]
    /\ store \in [Convs -> SUBSET Objects]
    /\ log \in [Convs -> Seq(Msgs)]
    /\ spoiled \in [Convs -> {"no", "unsaved", "lost"}]

\* A call that has loaded something has one object at least, which belongs to
\* the user it was made for.
CallOK(r) ==
    /\ DOMAIN r = DOMAIN NoCall
    /\ r.user \subseteq Users /\ r.val \subseteq Objects
    /\ r.at # "none" => r.user # {}
    /\ r.at \in {"fill", "eachFill"} => r.val # {}

CallTypeOK == DOMAIN call = Clients /\ \A k \in Clients : CallOK(call[k])

-----------------------------------------------------------------------------
(* The context of a conversation. *)

LEMMA ContextType ==
    ASSUME NEW s \in Seq(Msgs)
    PROVE  /\ Context(s) \in Seq(Msgs)
           /\ MaxContextLength > 0 /\ Len(s) > MaxContextLength =>
                 /\ Len(Context(s)) = MaxContextLength
                 /\ \A i \in 1..MaxContextLength :
                       Context(s)[i] = s[Len(s) - MaxContextLength + i]
           /\ ~ (MaxContextLength > 0 /\ Len(s) > MaxContextLength) => Context(s) = s
<1> DEFINE M == MaxContextLength
<1>1. M \in Int /\ Len(s) \in Nat /\ \A i \in 1..Len(s) : s[i] \in Msgs
  BY LimitsType, LenProperties
<1>2. CASE M > 0 /\ Len(s) > M
  <2> DEFINE a == Len(s) - M + 1
  <2>1. a \in Int /\ a >= 1 /\ Len(s) - a + 1 = M /\ \A i \in a..Len(s) : s[i] \in Msgs
    BY <1>1, <1>2
  <2>2. Context(s) = SubSeq(s, a, Len(s))
    BY <1>2 DEF Context
  <2> HIDE DEF a
  <2>3. /\ SubSeq(s, a, Len(s)) \in Seq(Msgs) /\ Len(SubSeq(s, a, Len(s))) = M
        /\ \A i \in 1..M : SubSeq(s, a, Len(s))[i] = s[a + i - 1]
    BY <1>1, <1>2, <2>1, SubSeqProperties
  <2>4. \A i \in 1..M : a + i - 1 = Len(s) - M + i
    BY <1>1 DEF a
  <2>5. QED BY <1>2, <2>2, <2>3, <2>4
<1>3. CASE ~ (M > 0 /\ Len(s) > M)
  BY <1>3 DEF Context
<1>4. QED BY <1>2, <1>3

\* The context of no messages, and of one more message.
LEMMA ContextEmpty == Context(<<>>) = <<>>
BY LimitsType, EmptySeq DEF Context

LEMMA ContextAppend ==
    ASSUME NEW s \in Seq(Msgs), NEW m \in Msgs
    PROVE  Context(Append(Context(s), m)) = Context(Append(s, m))
<1> DEFINE M == MaxContextLength
           c == Context(s)
           l == Append(c, m)
           r == Append(s, m)
<1>1. M \in Int /\ Len(s) \in Nat /\ c \in Seq(Msgs)
  BY LimitsType, LenProperties, ContextType
<1>2. CASE M > 0 /\ Len(s) > M
  <2>1. Len(c) = M /\ \A i \in 1..M : c[i] = s[Len(s) - M + i]
    BY <1>2, ContextType
  <2> HIDE DEF c
  <2>2. /\ l \in Seq(Msgs) /\ Len(l) = M + 1 /\ l[M + 1] = m
        /\ \A i \in 1..M : l[i] = c[i]
    BY <1>1, <2>1, AppendProperties
  <2>3. /\ r \in Seq(Msgs) /\ Len(r) = Len(s) + 1 /\ r[Len(s) + 1] = m
        /\ \A i \in 1..Len(s) : r[i] = s[i]
    BY <1>1, AppendProperties
  <2> HIDE DEF l, r
  <2>4. /\ Context(l) \in Seq(Msgs) /\ Len(Context(l)) = M
        /\ \A i \in 1..M : Context(l)[i] = l[Len(l) - M + i]
    <3>1. Len(l) > M
      BY <1>1, <2>2
    <3>2. QED BY <1>2, <2>2, <3>1, ContextType
  <2>5. /\ Context(r) \in Seq(Msgs) /\ Len(Context(r)) = M
        /\ \A i \in 1..M : Context(r)[i] = r[Len(r) - M + i]
    <3>1. Len(r) > M
      BY <1>1, <1>2, <2>3
    <3>2. QED BY <1>2, <2>3, <3>1, ContextType
  <2>6. ASSUME NEW i \in 1..M PROVE Context(l)[i] = Context(r)[i]
    <3>1. Len(l) - M + i = i + 1
      BY <1>1, <2>2
    <3>2. CASE i = M
      <4>1. Len(r) - M + i = Len(s) + 1
        BY <1>1, <2>3, <3>2
      <4>2. QED BY <2>2, <2>3, <2>4, <2>5, <3>1, <3>2, <4>1
    <3>3. CASE i # M
      <4> DEFINE p == Len(r) - M + i
      <4>1. i + 1 \in 1..M /\ Len(s) - M + (i + 1) = p /\ p \in 1..Len(s)
        BY <1>1, <1>2, <2>3, <3>3
      <4>2. Context(r)[i] = r[p]
        BY <2>5
      <4> HIDE DEF p
      <4>3. Context(l)[i] = s[p]
        BY <2>1, <2>2, <2>4, <3>1, <4>1
      <4>4. QED BY <2>3, <4>1, <4>2, <4>3
    <3>4. QED BY <3>2, <3>3
  <2>7. Context(l) = Context(r)
    BY <2>4, <2>5, <2>6, SeqEqual
  <2>8. QED BY <2>7 DEF c, l, r
<1>3. CASE ~ (M > 0 /\ Len(s) > M)
  <2>1. c = s
    BY <1>3, ContextType
  <2>2. QED BY <2>1
<1>4. QED BY <1>2, <1>3

-----------------------------------------------------------------------------
(* The history of a conversation.                                          *)

\* What memory has is what was added: C are the objects in memory, l is the
\* history and h what has spoiled it.
MemOK(C, l, h) == h # "lost" => \A o \in C : o.msgs = Context(l)

\* The store has it too, unless it is known not to, and then memory still has
\* the conversation.  S are the saved objects.
HistOK(C, S, l, h) ==
    /\ MemOK(C, l, h)
    /\ h = "unsaved" => C # {}
    /\ h = "no" => (\A o \in S : o.msgs = Context(l)) /\ (l # <<>> => S # {})

HistoryInv ==
    \A c \in Convs : HistOK(conversations[c], store[c], log[c], spoiled[c])

LEMMA HistoryInvMeaning == HistoryInv => HistoryKept
BY DEF HistoryInv, HistoryKept, HistOK, MemOK

\* Saving conversations as they are in M, however many of the saves fail: M is
\* then memory, L the history and H what had spoiled it.
LEMMA SaveKeeps ==
    ASSUME NEW S, NEW M \in [Convs -> SUBSET Objects],
           NEW H \in [Convs -> {"no", "unsaved", "lost"}], NEW L,
           ConvTypeOK, Save(S, M, H),
           \A c \in Convs : IF c \in S THEN M[c] # {} /\ MemOK(M[c], L[c], H[c])
                            ELSE HistOK(M[c], store[c], L[c], H[c])
    PROVE  /\ store' \in [Convs -> SUBSET Objects]
           /\ spoiled' \in [Convs -> {"no", "unsaved", "lost"}]
           /\ \A c \in Convs : HistOK(M[c], store'[c], L[c], spoiled'[c])
<1>1. PICK done \in SUBSET S :
         /\ store' = [c \in Convs |-> IF c \in done THEN M[c] ELSE store[c]]
         /\ spoiled' = [c \in Convs |->
               CASE c \in done /\ H[c] = "unsaved" -> "no"
                 [] c \in S \ done /\ H[c] = "no" -> "unsaved"
                 [] OTHER -> H[c]]
  BY DEF Save
<1>2. store' \in [Convs -> SUBSET Objects]
  BY <1>1 DEF ConvTypeOK
<1>3. ASSUME NEW c \in Convs
      PROVE  spoiled'[c] = IF c \in done /\ H[c] = "unsaved" THEN "no"
                           ELSE IF c \in S \ done /\ H[c] = "no" THEN "unsaved"
                           ELSE H[c]
  BY <1>1
<1>4. spoiled' \in [Convs -> {"no", "unsaved", "lost"}]
  <2>1. DOMAIN spoiled' = Convs /\ spoiled' = [c \in Convs |-> spoiled'[c]]
    BY <1>1
  <2>2. \A c \in Convs : spoiled'[c] \in {"no", "unsaved", "lost"}
    BY <1>3
  <2>3. QED BY <2>1, <2>2
<1>5. ASSUME NEW c \in Convs PROVE HistOK(M[c], store'[c], L[c], spoiled'[c])
  <2>0. store'[c] = IF c \in done THEN M[c] ELSE store[c]
    BY <1>1
  <2>1. CASE c \notin S
    <3>1. store'[c] = store[c] /\ spoiled'[c] = H[c]
      BY <1>3, <2>0, <2>1
    <3>2. QED BY <2>1, <3>1
  <2>2. CASE c \in done
    <3>1. store'[c] = M[c] /\ M[c] # {} /\ MemOK(M[c], L[c], H[c])
      BY <2>0, <2>2
    <3>2. \/ H[c] = "lost" /\ spoiled'[c] = "lost"
          \/ H[c] # "lost" /\ spoiled'[c] = "no"
      BY <1>3, <2>2
    <3>3. QED BY <3>1, <3>2 DEF HistOK, MemOK
  <2>3. CASE c \in S \ done
    <3>1. M[c] # {} /\ MemOK(M[c], L[c], H[c])
      BY <2>3
    <3>2. \/ H[c] = "lost" /\ spoiled'[c] = "lost"
          \/ H[c] # "lost" /\ spoiled'[c] = "unsaved"
      BY <1>3, <2>3
    <3>3. QED BY <3>1, <3>2 DEF HistOK, MemOK
  <2>4. QED BY <2>1, <2>2, <2>3
<1>6. QED BY <1>2, <1>4, <1>5

\* Filling memory with what was loaded before: it is noticed in the history
\* when that is not what is there, or saved, by now.
LEMMA FillKeeps ==
    ASSUME ConvTypeOK, HistoryInv, NEW c \in Convs,
           NEW val \in SUBSET Objects, val # {}
    PROVE  LET Filled == [conversations EXCEPT ![c] = val]
               H == FillSpoils(c, val)
           IN  /\ Filled \in [Convs -> SUBSET Objects]
               /\ H \in [Convs -> {"no", "unsaved", "lost"}]
               /\ \A d \in Convs : HistOK(Filled[d], store[d], log[d], H[d])
<1> DEFINE Filled == [conversations EXCEPT ![c] = val]
           H == FillSpoils(c, val)
<1>1. Filled \in [Convs -> SUBSET Objects]
  BY DEF ConvTypeOK
<1>2. H \in [Convs -> {"no", "unsaved", "lost"}]
  BY DEF ConvTypeOK, FillSpoils
<1>3. ASSUME NEW d \in Convs, d # c
      PROVE  Filled[d] = conversations[d] /\ H[d] = spoiled[d]
  BY <1>3 DEF ConvTypeOK, FillSpoils
<1>4. Filled[c] = val /\ (H[c] = "lost" \/ H[c] = spoiled[c])
  BY DEF ConvTypeOK, FillSpoils
<1>5. StaleFill(c, val) => H[c] = "lost"
  BY DEF ConvTypeOK, FillSpoils
<1>6. HistOK(conversations[c], store[c], log[c], spoiled[c])
  BY DEF HistoryInv
<1> HIDE DEF Filled, H
<1>7. HistOK(val, store[c], log[c], H[c])
  <2>1. CASE H[c] = "lost"
    BY <2>1 DEF HistOK, MemOK
  <2>2. CASE H[c] # "lost"
    <3>1. /\ H[c] = spoiled[c]
          /\ \A v \in val : \A o \in conversations[c] \cup store[c] : o.msgs = v.msgs
          /\ store[c] = {} => \A v \in val : v.msgs = <<>>
      BY <1>4, <1>5, <2>2 DEF StaleFill
    <3>2. ASSUME NEW v \in val PROVE v.msgs = Context(log[c])
      <4>1. CASE conversations[c] # {}
        BY <1>6, <2>2, <3>1, <4>1 DEF HistOK, MemOK
      <4>2. CASE conversations[c] = {} /\ store[c] # {}
        <5>1. spoiled[c] = "no"
          BY <1>2, <1>6, <2>2, <3>1, <4>2 DEF HistOK
        <5>2. QED BY <1>6, <3>1, <4>2, <5>1 DEF HistOK
      <4>3. CASE conversations[c] = {} /\ store[c] = {}
        <5>1. spoiled[c] = "no"
          BY <1>2, <1>6, <2>2, <3>1, <4>3 DEF HistOK
        <5>2. log[c] = <<>>
          BY <1>6, <4>3, <5>1 DEF HistOK
        <5>3. QED BY <3>1, <4>3, <5>2, ContextEmpty
      <4>4. QED BY <4>1, <4>2, <4>3
    <3>3. QED BY <1>6, <3>1, <3>2 DEF HistOK, MemOK
  <2>3. QED BY <2>1, <2>2
<1>8. \A d \in Convs : HistOK(Filled[d], store[d], log[d], H[d])
  BY <1>3, <1>4, <1>7 DEF HistoryInv
<1>9. QED BY <1>1, <1>2, <1>8 DEF Filled, H

-----------------------------------------------------------------------------
(* The calls. *)

CallFields == {"op", "at", "conv", "user", "msg", "val", "todo"}

LEMMA NoCallOK == DOMAIN NoCall = CallFields /\ CallOK(NoCall)
                  /\ NoCall.op = "none" /\ NoCall.at = "none" /\ NoCall.msg = {}
BY DEF NoCall, CallOK, CallFields

\* A call that goes on with new values in some of its fields.
LEMMA CallEdit ==
    ASSUME NEW r, CallOK(r), NEW a, NEW v
    PROVE  /\ LET q == [r EXCEPT !.at = a]
              IN  /\ DOMAIN q = DOMAIN r /\ q.at = a /\ q.op = r.op
                  /\ q.user = r.user /\ q.msg = r.msg /\ q.val = r.val
           /\ LET q == [r EXCEPT !.at = a, !.val = v]
              IN  /\ DOMAIN q = DOMAIN r /\ q.at = a /\ q.op = r.op
                  /\ q.user = r.user /\ q.msg = r.msg /\ q.val = v
           /\ LET q == [r EXCEPT !.at = a, !.todo = v]
              IN  /\ DOMAIN q = DOMAIN r /\ q.at = a /\ q.op = r.op
                  /\ q.user = r.user /\ q.msg = r.msg /\ q.val = r.val
BY NoCallOK DEF CallOK, CallFields

\* One call has a new record.
LEMMA CallSet ==
    ASSUME CallTypeOK, NEW k \in Clients, NEW r, CallOK(r),
           call' = [call EXCEPT ![k] = r]
    PROVE  CallTypeOK' /\ call'[k] = r /\ \A j \in Clients : j # k => call'[j] = call[j]
BY DEF CallTypeOK

\* A call goes on to another place, with what it has loaded or as it is, or is
\* over.
Moved(k, a) == [call EXCEPT ![k].at = a]
Loaded(k, a, val) == [call EXCEPT ![k].at = a, ![k].val = val]

LEMMA CallMoves ==
    ASSUME CallTypeOK, NEW k \in Clients, NEW a, a \notin {"fill", "eachFill"},
           call[k].at # "none", call' = Moved(k, a)
    PROVE  /\ CallTypeOK' /\ call'[k].at = a /\ call'[k].op = call[k].op
           /\ call'[k].msg = call[k].msg
           /\ \A j \in Clients : j # k => call'[j] = call[j]
<1> DEFINE r == [call[k] EXCEPT !.at = a]
<1>1. CallOK(call[k]) /\ call' = [call EXCEPT ![k] = r]
  BY DEF CallTypeOK, Moved
<1>2. /\ DOMAIN r = DOMAIN call[k] /\ r.at = a /\ r.op = call[k].op
      /\ r.user = call[k].user /\ r.msg = call[k].msg /\ r.val = call[k].val
  BY <1>1, CallEdit
<1> HIDE DEF r
<1>3. CallOK(r)
  BY <1>1, <1>2 DEF CallOK
<1>4. QED BY <1>1, <1>2, <1>3, CallSet

LEMMA CallEnds ==
    ASSUME CallTypeOK, NEW k \in Clients, call' = [call EXCEPT ![k] = NoCall]
    PROVE  /\ CallTypeOK' /\ call'[k].msg = {}
           /\ \A j \in Clients : j # k => call'[j] = call[j]
BY NoCallOK, CallSet

\* A method returns to its handler.
LEMMA CallReturns ==
    ASSUME CallTypeOK, NEW k \in Clients, call[k].at # "none",
           call' = [call EXCEPT ![k] = Returned(@)]
    PROVE  /\ CallTypeOK'
           /\ \A j \in Clients : j # k => call'[j] = call[j]
           /\ IF call[k].op = "submit"
              THEN /\ call'[k].at = "add" /\ call'[k].op = "submit"
                   /\ call'[k].msg = call[k].msg
              ELSE call'[k].msg = {}
<1>1. CallOK(call[k]) /\ call' = [call EXCEPT ![k] = Returned(call[k])]
  BY DEF CallTypeOK
<1>2. CASE call[k].op = "submit"
  <2> DEFINE r == [call[k] EXCEPT !.at = "add", !.val = {}]
  <2>1. /\ DOMAIN r = DOMAIN call[k] /\ r.at = "add" /\ r.op = call[k].op
        /\ r.user = call[k].user /\ r.msg = call[k].msg /\ r.val = {}
    BY <1>1, CallEdit
  <2>2. call' = [call EXCEPT ![k] = r]
    BY <1>1, <1>2 DEF Returned
  <2> HIDE DEF r
  <2>3. CallOK(r)
    BY <1>1, <2>1 DEF CallOK
  <2>4. QED BY <1>2, <2>1, <2>2, <2>3, CallSet
<1>3. CASE call[k].op # "submit"
  <2>1. call' = [call EXCEPT ![k] = NoCall]
    BY <1>1, <1>3 DEF Returned
  <2>2. QED BY <1>3, <2>1, CallEnds
<1>4. QED BY <1>2, <1>3

\* A call has loaded val.
LEMMA CallLoads ==
    ASSUME CallTypeOK, NEW k \in Clients, call[k].at # "none", NEW a,
           NEW val \in SUBSET Objects, a \in {"fill", "eachFill"} => val # {},
           call' = Loaded(k, a, val)
    PROVE  /\ CallTypeOK' /\ call'[k].at = a /\ call'[k].op = call[k].op
           /\ call'[k].msg = call[k].msg
           /\ \A j \in Clients : j # k => call'[j] = call[j]
<1> DEFINE r == [call[k] EXCEPT !.at = a, !.val = val]
<1>1. CallOK(call[k]) /\ call' = [call EXCEPT ![k] = r]
  BY DEF CallTypeOK, Loaded
<1>2. /\ DOMAIN r = DOMAIN call[k] /\ r.at = a /\ r.op = call[k].op
      /\ r.user = call[k].user /\ r.msg = call[k].msg /\ r.val = val
  BY <1>1, CallEdit
<1> HIDE DEF r
<1>3. CallOK(r)
  BY <1>1, <1>2 DEF CallOK
<1>4. QED BY <1>1, <1>2, <1>3, CallSet

\* What a step of GetConversation or GetUserConversations makes of its call.
Lookups == {"lookup", "load", "fill"}
Listings == {"list", "each", "eachLoad", "eachFill"}

LEMMA ConvStepCall ==
    ASSUME ConvTypeOK, CallTypeOK, NEW k \in Clients, ConvStep(k)
    PROVE  /\ CallTypeOK'
           /\ \A j \in Clients : j # k => call'[j] = call[j]
           /\ \/ call'[k].msg = {}
              \/ call[k].at \in Listings /\ call'[k].msg = call[k].msg
              \/ /\ call[k].at \in Lookups
                 /\ call'[k].msg = call[k].msg /\ call'[k].op = call[k].op
                 /\ call'[k].at \in {"load", "fill", "add"}
<1> USE DEF Lookups, Listings
<1>0. CallOK(call[k])
  BY DEF CallTypeOK
<1>1. ASSUME call[k].at \in Lookups \cup Listings,
             call' = [call EXCEPT ![k] = Returned(@)]
      PROVE  /\ CallTypeOK'
             /\ \A j \in Clients : j # k => call'[j] = call[j]
             /\ \/ call'[k].msg = {}
                \/ /\ call'[k].msg = call[k].msg /\ call'[k].op = call[k].op
                   /\ call'[k].at = "add"
  BY <1>1, CallReturns
<1>2. CASE ListIDs(k)
  <2>1. call[k].at = "list"
    BY <1>2 DEF ListIDs
  <2>2. CASE call' = [call EXCEPT ![k] = Returned(@)]
    BY <1>1, <2>1, <2>2
  <2>3. CASE \E ids : call' = [call EXCEPT ![k].at = "each", ![k].todo = ids]
    <3>1. PICK ids : call' = [call EXCEPT ![k].at = "each", ![k].todo = ids]
      BY <2>3
    <3> DEFINE r == [call[k] EXCEPT !.at = "each", !.todo = ids]
    <3>2. call' = [call EXCEPT ![k] = r]
      BY <3>1 DEF CallTypeOK
    <3>3. /\ DOMAIN r = DOMAIN call[k] /\ r.at = "each" /\ r.op = call[k].op
          /\ r.user = call[k].user /\ r.msg = call[k].msg /\ r.val = call[k].val
      BY <1>0, CallEdit
    <3> HIDE DEF r
    <3>4. CallOK(r)
      BY <1>0, <2>1, <3>3 DEF CallOK
    <3>5. QED BY <2>1, <3>2, <3>3, <3>4, CallSet
  <2>4. QED BY <1>2, <2>2, <2>3 DEF ListIDs
<1>3. CASE ListNext(k)
  <2>1. call[k].at = "each"
    BY <1>3 DEF ListNext
  <2>2. CASE call' = [call EXCEPT ![k] = Returned(@)]
    BY <1>1, <2>1, <2>2
  <2>3. CASE \E c \in call[k].todo :
                call' = [call EXCEPT ![k].todo = @ \ {c}, ![k].conv = {c},
                   ![k].at = IF conversations[c] = {} THEN "eachLoad" ELSE "each"]
    <3>1. PICK c \in call[k].todo :
                call' = [call EXCEPT ![k].todo = @ \ {c}, ![k].conv = {c},
                   ![k].at = IF conversations[c] = {} THEN "eachLoad" ELSE "each"]
      BY <2>3
    <3> DEFINE a == IF conversations[c] = {} THEN "eachLoad" ELSE "each"
               r == [call[k] EXCEPT !.todo = @ \ {c}, !.conv = {c}, !.at = a]
    <3>2. call' = [call EXCEPT ![k] = r]
      BY <3>1 DEF CallTypeOK
    <3>3. /\ DOMAIN r = DOMAIN call[k] /\ r.at \in {"eachLoad", "each"}
          /\ r.user = call[k].user /\ r.msg = call[k].msg /\ r.val = call[k].val
      BY <1>0, NoCallOK DEF CallOK, CallFields
    <3> HIDE DEF r
    <3>4. CallOK(r)
      BY <1>0, <2>1, <3>3 DEF CallOK
    <3>5. QED BY <2>1, <3>2, <3>3, <3>4, CallSet
  <2>4. QED BY <1>3, <2>2, <2>3 DEF ListNext
<1>4. ASSUME NEW c \in Convs, GetLookup(k, c)
      PROVE  /\ CallTypeOK'
             /\ \A j \in Clients : j # k => call'[j] = call[j]
             /\ \/ call'[k].msg = {}
                \/ /\ call'[k].msg = call[k].msg /\ call'[k].op = call[k].op
                   /\ call'[k].at \in {"load", "fill", "add"}
  <2>1. call[k].at = "lookup"
    BY <1>4 DEF GetLookup
  <2>2. CASE conversations[c] # {}
    <3>1. call' = [call EXCEPT ![k] = Returned(@)]
      BY <1>4, <2>2 DEF GetLookup
    <3>2. QED BY <1>1, <2>1, <3>1
  <2>3. CASE conversations[c] = {}
    <3>1. call' = Moved(k, "load")
      BY <1>4, <2>3 DEF GetLookup, Moved
    <3>2. QED BY <2>1, <3>1, CallMoves
  <2>4. QED BY <2>2, <2>3
<1>5. ASSUME NEW c \in Convs, GetLoad(k, c)
      PROVE  /\ CallTypeOK'
             /\ \A j \in Clients : j # k => call'[j] = call[j]
             /\ call'[k].msg = call[k].msg /\ call'[k].op = call[k].op
             /\ call'[k].at = "fill"
  <2>1. call[k].at = "load"
    BY <1>5 DEF GetLoad
  <2>2. CASE store[c] # {} /\ call' = Loaded(k, "fill", store[c])
    <3>1. store[c] \in SUBSET Objects
      BY DEF ConvTypeOK
    <3>2. QED BY <2>1, <2>2, <3>1, CallLoads
  <2>3. CASE call' = Loaded(k, "fill", {NewConversation(u) : u \in call[k].user})
    <3> DEFINE val == {NewConversation(u) : u \in call[k].user}
    <3>1. \A u \in Users : NewConversation(u) \in Objects
      BY EmptySeq DEF NewConversation, Objects
    <3>2. val \in SUBSET Objects /\ val # {}
      BY <1>0, <2>1, <3>1 DEF CallOK
    <3> HIDE DEF val
    <3>3. QED BY <2>1, <2>3, <3>2, CallLoads DEF val
  <2>4. QED BY <1>5, <2>2, <2>3 DEF GetLoad, Loaded
<1>6. ASSUME NEW c \in Convs, GetFill(k, c)
      PROVE  call[k].at = "fill" /\ call' = [call EXCEPT ![k] = Returned(@)]
  BY <1>6 DEF GetFill
<1>7. ASSUME NEW c \in Convs, ListLoad(k, c)
      PROVE  /\ CallTypeOK'
             /\ \A j \in Clients : j # k => call'[j] = call[j]
             /\ call'[k].msg = call[k].msg
  <2>1. call[k].at = "eachLoad"
    BY <1>7 DEF ListLoad
  <2>2. CASE store[c] # {} /\ call' = Loaded(k, "eachFill", store[c])
    <3>1. store[c] \in SUBSET Objects
      BY DEF ConvTypeOK
    <3>2. QED BY <2>1, <2>2, <3>1, CallLoads
  <2>3. CASE call' = Moved(k, "each")
    BY <2>1, <2>3, CallMoves
  <2>4. QED BY <1>7, <2>2, <2>3 DEF ListLoad, Loaded, Moved
<1>8. ASSUME NEW c \in Convs, ListFill(k, c)
      PROVE  /\ CallTypeOK'
             /\ \A j \in Clients : j # k => call'[j] = call[j]
             /\ call'[k].msg = call[k].msg
  <2>1. /\ call[k].at = "eachFill"
        /\ call' = Loaded(k, "each", {})
    BY <1>8 DEF ListFill, Loaded
  <2>2. {} \in SUBSET Objects
    OBVIOUS
  <2>3. QED BY <2>1, <2>2, CallLoads
<1>9. ASSUME NEW c \in Convs
      PROVE  /\ GetLookup(k, c) => call[k].at \in Lookups
             /\ GetLoad(k, c) => call[k].at \in Lookups
             /\ ListLoad(k, c) => call[k].at \in Listings
             /\ ListFill(k, c) => call[k].at \in Listings
  BY DEF GetLookup, GetLoad, ListLoad, ListFill
<1>10. QED
  BY <1>1, <1>2, <1>3, <1>4, <1>5, <1>6, <1>7, <1>8, <1>9 DEF ConvStep

-----------------------------------------------------------------------------
(* Every action keeps the histories.                                       *)

LEMMA HistSame ==
    ASSUME ConvTypeOK, HistoryInv, conversations' = conversations,
           store' = store, log' = log, spoiled' = spoiled
    PROVE  ConvTypeOK' /\ HistoryInv'
BY DEF ConvTypeOK, HistoryInv

\* The histories one by one.
LEMMA HistNext ==
    ASSUME \A c \in Convs : HistOK(conversations'[c], store'[c], log'[c], spoiled'[c])
    PROVE  HistoryInv'
BY DEF HistoryInv

\* AddMessage: what is in memory grows with the history, and is saved or not.
LEMMA AddMessageKeeps ==
    ASSUME ConvTypeOK, HistoryInv, NEW c \in Convs, NEW m \in Msgs, AddMessage(c, m)
    PROVE  ConvTypeOK' /\ HistoryInv'
<1> DEFINE New == {[o EXCEPT !.msgs = Context(Append(@, m))] : o \in conversations[c]}
<1>1. /\ conversations[c] # {} /\ conversations' = [conversations EXCEPT ![c] = New]
      /\ log' = [log EXCEPT ![c] = Append(@, m)]
      /\ Save({c}, conversations', spoiled)
  BY DEF AddMessage
<1>2. conversations[c] \subseteq Objects /\ log[c] \in Seq(Msgs)
  BY DEF ConvTypeOK
<1>3. ASSUME NEW o \in conversations[c]
      PROVE  /\ [o EXCEPT !.msgs = Context(Append(@, m))] \in Objects
             /\ [o EXCEPT !.msgs = Context(Append(@, m))].msgs
                   = Context(Append(o.msgs, m))
  <2>1. o \in Objects /\ o.msgs \in Seq(Msgs)
    BY <1>2 DEF Objects
  <2>2. Append(o.msgs, m) \in Seq(Msgs)
    BY <2>1, AppendProperties
  <2>3. Context(Append(o.msgs, m)) \in Seq(Msgs)
    BY <2>2, ContextType
  <2>4. QED BY <2>1, <2>3 DEF Objects
<1>4. New \subseteq Objects /\ New # {}
  BY <1>1, <1>3
<1>5. ASSUME spoiled[c] # "lost", NEW n \in New
      PROVE  n.msgs = Context(Append(log[c], m))
  <2>1. PICK o \in conversations[c] : n.msgs = Context(Append(o.msgs, m))
    BY <1>3
  <2>2. o.msgs = Context(log[c])
    BY <1>5 DEF HistoryInv, HistOK, MemOK
  <2>3. QED BY <1>2, <2>1, <2>2, ContextAppend
<1> HIDE DEF New
<1>6. /\ conversations' \in [Convs -> SUBSET Objects] /\ conversations'[c] = New
      /\ \A d \in Convs : d # c => conversations'[d] = conversations[d]
  BY <1>1, <1>4 DEF ConvTypeOK
<1>7. /\ log' \in [Convs -> Seq(Msgs)] /\ log'[c] = Append(log[c], m)
      /\ \A d \in Convs : d # c => log'[d] = log[d]
  BY <1>1, <1>2, AppendProperties DEF ConvTypeOK
<1>8. \A d \in Convs :
         IF d \in {c}
         THEN conversations'[d] # {} /\ MemOK(conversations'[d], log'[d], spoiled[d])
         ELSE HistOK(conversations'[d], store[d], log'[d], spoiled[d])
  <2>1. conversations'[c] # {} /\ MemOK(conversations'[c], log'[c], spoiled[c])
    BY <1>4, <1>5, <1>6, <1>7 DEF MemOK
  <2>2. \A d \in Convs : d # c => HistOK(conversations'[d], store[d], log'[d], spoiled[d])
    BY <1>6, <1>7 DEF HistoryInv
  <2>3. QED BY <2>1, <2>2
<1>9. spoiled \in [Convs -> {"no", "unsaved", "lost"}]
  BY DEF ConvTypeOK
<1>10. /\ store' \in [Convs -> SUBSET Objects]
       /\ spoiled' \in [Convs -> {"no", "unsaved", "lost"}]
       /\ \A d \in Convs : HistOK(conversations'[d], store'[d], log'[d], spoiled'[d])
  <2> DEFINE S == {c}
  <2>1. Save(S, conversations', spoiled)
    BY <1>1
  <2>2. conversations' \in [Convs -> SUBSET Objects]
    BY <1>6
  <2>3. \A d \in Convs :
           IF d \in S
           THEN conversations'[d] # {} /\ MemOK(conversations'[d], log'[d], spoiled[d])
           ELSE HistOK(conversations'[d], store[d], log'[d], spoiled[d])
    BY <1>8
  <2> HIDE DEF S
  <2>4. QED BY <1>9, <2>1, <2>2, <2>3, SaveKeeps
<1>11. QED BY <1>6, <1>7, <1>10, HistNext DEF ConvTypeOK

\* A conversation leaves memory, and perhaps the store.
LEMMA DeleteKeeps ==
    ASSUME ConvTypeOK, HistoryInv, NEW c \in Convs, DeleteConversation(c)
    PROVE  ConvTypeOK' /\ HistoryInv'
<1>1. /\ conversations' = [conversations EXCEPT ![c] = {}]
      /\ \/ /\ store' = [store EXCEPT ![c] = {}]
            /\ log' = [log EXCEPT ![c] = <<>>]
            /\ spoiled' = [spoiled EXCEPT ![c] = "no"]
         \/ /\ spoiled' = [spoiled EXCEPT ![c] = Forgotten(@)]
            /\ UNCHANGED <<store, log>>
  BY DEF DeleteConversation, DeleteSaved
<1>2. HistOK(conversations[c], store[c], log[c], spoiled[c])
  BY DEF HistoryInv
<1>3. conversations' \in [Convs -> SUBSET Objects]
  BY <1>1 DEF ConvTypeOK
<1>4. CASE /\ store' = [store EXCEPT ![c] = {}]
           /\ log' = [log EXCEPT ![c] = <<>>]
           /\ spoiled' = [spoiled EXCEPT ![c] = "no"]
  <2>1. <<>> \in Seq(Msgs)
    BY EmptySeq
  <2>2. ConvTypeOK'
    BY <1>3, <1>4, <2>1 DEF ConvTypeOK
  <2>3. HistOK(conversations'[c], store'[c], log'[c], spoiled'[c])
    BY <1>1, <1>4 DEF ConvTypeOK, HistOK, MemOK
  <2>4. \A d \in Convs : d # c =>
           HistOK(conversations'[d], store'[d], log'[d], spoiled'[d])
    BY <1>1, <1>4 DEF ConvTypeOK, HistoryInv
  <2>5. QED BY <2>2, <2>3, <2>4, HistNext
<1>5. CASE /\ spoiled' = [spoiled EXCEPT ![c] = Forgotten(@)]
           /\ UNCHANGED <<store, log>>
  <2>1. ConvTypeOK'
    BY <1>3, <1>5 DEF ConvTypeOK, Forgotten
  <2>2. conversations'[c] = {} /\ spoiled'[c] = Forgotten(spoiled[c])
    BY <1>1, <1>5 DEF ConvTypeOK
  <2>3. HistOK(conversations'[c], store'[c], log'[c], spoiled'[c])
    BY <1>2, <1>5, <2>2 DEF HistOK, MemOK, Forgotten
  <2>4. \A d \in Convs : d # c =>
           HistOK(conversations'[d], store'[d], log'[d], spoiled'[d])
    BY <1>1, <1>5 DEF ConvTypeOK, HistoryInv
  <2>5. QED BY <2>1, <2>3, <2>4, HistNext
<1>6. QED BY <1>1, <1>4, <1>5

\* The saved conversation expires.
LEMMA ExpireKeeps ==
    ASSUME ConvTypeOK, HistoryInv, NEW c \in Convs, StoreExpires(c)
    PROVE  ConvTypeOK' /\ HistoryInv'
<1>1. store' = [store EXCEPT ![c] = {}] /\ conversations' = conversations
  BY DEF StoreExpires
<1>2. HistOK(conversations[c], store[c], log[c], spoiled[c])
  BY DEF HistoryInv
<1>3. CASE conversations[c] = {}
  <2>1. log' = [log EXCEPT ![c] = <<>>] /\ spoiled' = [spoiled EXCEPT ![c] = "no"]
    BY <1>3 DEF StoreExpires
  <2>2. ConvTypeOK'
    BY <1>1, <2>1, EmptySeq DEF ConvTypeOK
  <2>3. HistOK(conversations'[c], store'[c], log'[c], spoiled'[c])
    BY <1>1, <1>3, <2>1 DEF ConvTypeOK, HistOK, MemOK
  <2>4. \A d \in Convs : d # c =>
           HistOK(conversations'[d], store'[d], log'[d], spoiled'[d])
    BY <1>1, <2>1 DEF ConvTypeOK, HistoryInv
  <2>5. QED BY <2>2, <2>3, <2>4, HistNext
<1>4. CASE conversations[c] # {}
  <2>1. /\ log' = log
        /\ spoiled' = [spoiled EXCEPT ![c] = IF @ = "no" THEN "unsaved" ELSE @]
    BY <1>4 DEF StoreExpires
  <2>2. ConvTypeOK'
    BY <1>1, <2>1 DEF ConvTypeOK
  <2>3. HistOK(conversations'[c], store'[c], log'[c], spoiled'[c])
    BY <1>1, <1>2, <1>4, <2>1 DEF ConvTypeOK, HistOK, MemOK
  <2>4. \A d \in Convs : d # c =>
           HistOK(conversations'[d], store'[d], log'[d], spoiled'[d])
    BY <1>1, <2>1 DEF ConvTypeOK, HistoryInv
  <2>5. QED BY <2>2, <2>3, <2>4, HistNext
<1>5. QED BY <1>3, <1>4

\* UpdateConversationState saves what is in memory.
LEMMA UpdateKeeps ==
    ASSUME ConvTypeOK, HistoryInv, NEW c \in Convs, UpdateConversation(c)
    PROVE  ConvTypeOK' /\ HistoryInv'
<1> DEFINE S == {c}
<1>1. /\ conversations[c] # {} /\ Save(S, conversations, spoiled)
      /\ conversations' = conversations /\ log' = log
  BY DEF UpdateConversation
<1>2. /\ conversations \in [Convs -> SUBSET Objects]
      /\ spoiled \in [Convs -> {"no", "unsaved", "lost"}]
  BY DEF ConvTypeOK
<1>3. \A d \in Convs :
         IF d \in S
         THEN conversations[d] # {} /\ MemOK(conversations[d], log[d], spoiled[d])
         ELSE HistOK(conversations[d], store[d], log[d], spoiled[d])
  BY <1>1 DEF HistoryInv, HistOK
<1> HIDE DEF S
<1>4. /\ store' \in [Convs -> SUBSET Objects]
      /\ spoiled' \in [Convs -> {"no", "unsaved", "lost"}]
      /\ \A d \in Convs : HistOK(conversations[d], store'[d], log[d], spoiled'[d])
  BY <1>1, <1>2, <1>3, SaveKeeps
<1>5. QED BY <1>1, <1>4, HistNext DEF ConvTypeOK

\* GetConversation finds the conversation in the store, or makes a new one.
LEMMA GetLoadKeeps ==
    ASSUME ConvTypeOK, HistoryInv, NEW k, NEW c \in Convs, GetLoad(k, c)
    PROVE  ConvTypeOK' /\ HistoryInv'
<1>1. /\ UNCHANGED <<conversations, store, log>>
      /\ \/ spoiled' = spoiled
         \/ spoiled' = [spoiled EXCEPT ![c] = "lost"]
  BY DEF GetLoad
<1>2. CASE spoiled' = spoiled
  BY <1>1, <1>2, HistSame
<1>3. CASE spoiled' = [spoiled EXCEPT ![c] = "lost"]
  <2>1. ConvTypeOK'
    BY <1>1, <1>3 DEF ConvTypeOK
  <2>2. spoiled'[c] = "lost" /\ \A d \in Convs : d # c => spoiled'[d] = spoiled[d]
    BY <1>3 DEF ConvTypeOK
  <2>3. HistOK(conversations'[c], store'[c], log'[c], spoiled'[c])
    BY <2>2 DEF HistOK, MemOK
  <2>4. \A d \in Convs : d # c =>
           HistOK(conversations'[d], store'[d], log'[d], spoiled'[d])
    BY <1>1, <2>2 DEF HistoryInv
  <2>5. QED BY <2>1, <2>3, <2>4, HistNext
<1>4. QED BY <1>1, <1>2, <1>3

\* ... and puts it into memory; others of the user may be saved.
LEMMA GetFillKeeps ==
    ASSUME ConvTypeOK, CallTypeOK, HistoryInv, NEW k \in Clients, NEW c \in Convs,
           GetFill(k, c)
    PROVE  ConvTypeOK' /\ HistoryInv'
<1> DEFINE val == call[k].val
           Filled == [conversations EXCEPT ![c] = val]
           H == FillSpoils(c, val)
<1>1. val \in SUBSET Objects /\ val # {}
  BY DEF GetFill, CallTypeOK, CallOK
<1>2. PICK u \in call[k].user :
         /\ conversations' = Filled
         /\ Save({d \in Evicted(u, c) : Filled[d] # {}}, Filled, H)
  BY DEF GetFill
<1>3. log' = log
  BY DEF GetFill
<1> DEFINE S == {d \in Evicted(u, c) : Filled[d] # {}}
<1> HIDE DEF val
<1>4. /\ Filled \in [Convs -> SUBSET Objects]
      /\ H \in [Convs -> {"no", "unsaved", "lost"}]
      /\ \A d \in Convs : HistOK(Filled[d], store[d], log[d], H[d])
  BY <1>1, FillKeeps
<1>5. Save(S, Filled, H) /\ \A d \in S : Filled[d] # {}
  BY <1>2
<1> HIDE DEF S, Filled, H
<1>6. \A d \in Convs :
         IF d \in S THEN Filled[d] # {} /\ MemOK(Filled[d], log[d], H[d])
         ELSE HistOK(Filled[d], store[d], log[d], H[d])
  BY <1>4, <1>5 DEF HistOK
<1>7. /\ store' \in [Convs -> SUBSET Objects]
      /\ spoiled' \in [Convs -> {"no", "unsaved", "lost"}]
      /\ \A d \in Convs : HistOK(Filled[d], store'[d], log[d], spoiled'[d])
  BY <1>4, <1>5, <1>6, SaveKeeps
<1>8. QED BY <1>2, <1>3, <1>4, <1>7, HistNext DEF ConvTypeOK

\* GetUserConversations fills likewise and saves nothing.
LEMMA ListFillKeeps ==
    ASSUME ConvTypeOK, CallTypeOK, HistoryInv, NEW k \in Clients, NEW c \in Convs,
           ListFill(k, c)
    PROVE  ConvTypeOK' /\ HistoryInv'
<1> DEFINE val == call[k].val
           Filled == [conversations EXCEPT ![c] = val]
           H == FillSpoils(c, val)
<1>1. val \in SUBSET Objects /\ val # {}
  BY DEF ListFill, CallTypeOK, CallOK
<1>2. conversations' = Filled /\ spoiled' = H /\ log' = log /\ store' = store
  BY DEF ListFill
<1> HIDE DEF val
<1>3. /\ Filled \in [Convs -> SUBSET Objects]
      /\ H \in [Convs -> {"no", "unsaved", "lost"}]
      /\ \A d \in Convs : HistOK(Filled[d], store[d], log[d], H[d])
  BY <1>1, FillKeeps
<1> HIDE DEF Filled, H
<1>4. QED BY <1>2, <1>3, HistNext DEF ConvTypeOK

\* After a restart the store is all there is.
LEMMA RestartKeeps ==
    ASSUME ConvTypeOK, HistoryInv, ConvRestart
    PROVE  ConvTypeOK' /\ HistoryInv'
<1>1. /\ conversations' = [c \in Convs |-> {}] /\ store' = store /\ log' = log
      /\ spoiled' = [c \in Convs |-> Forgotten(spoiled[c])]
  BY DEF ConvRestart
<1>2. \A c \in Convs : Forgotten(spoiled[c]) \in {"no", "lost"}
  BY DEF ConvTypeOK, Forgotten
<1>3. ConvTypeOK'
  BY <1>1, <1>2 DEF ConvTypeOK
<1>4. ASSUME NEW c \in Convs
      PROVE  HistOK(conversations'[c], store'[c], log'[c], spoiled'[c])
  <2>1. conversations'[c] = {} /\ spoiled'[c] = Forgotten(spoiled[c])
    BY <1>1
  <2>2. HistOK(conversations[c], store[c], log[c], spoiled[c])
    BY DEF HistoryInv
  <2>3. QED BY <1>1, <1>2, <2>1, <2>2 DEF HistOK, MemOK, Forgotten
<1>5. QED BY <1>3, <1>4, HistNext

-----------------------------------------------------------------------------
(* Messages and the requests that carry them.                              *)

MessageTypeOK ==
    /\ answer \in [Msgs -> {"none", "202", "500"}]
    /\ handler \in [Msgs -> {"none", "submit", "add"}]
    /\ queued \subseteq Msgs /\ added \subseteq Msgs
    /\ restarts \in Nat

\* How far request k has got with message m.
RequestOK(k, m) ==
    /\ answer[m] = "none" /\ handler[m] = call[k].op
    /\ \/ /\ call[k].op = "submit" /\ call[k].at \in {"manager", "push"}
          /\ m \notin queued /\ m \notin added
       \/ /\ call[k].op = "submit" /\ call[k].at \in {"lookup", "load", "fill", "add"}
          /\ m \in queued /\ m \notin added
       \/ /\ call[k].op = "add" /\ call[k].at = "add"
          /\ m \notin queued /\ m \notin added
       \/ /\ call[k].op = "add" /\ call[k].at \in {"manager", "push"}
          /\ m \notin queued /\ m \in added

\* A message that no handler took is nowhere; one that was answered is where
\* the answer says.
MessageOK(m) ==
    /\ handler[m] = "none" => answer[m] = "none" /\ m \notin queued /\ m \notin added
    /\ answer[m] # "none" =>
          /\ restarts = 0 => (m \in queued <=> answer[m] = "202")
          /\ answer[m] = "500" /\ m \in added => handler[m] = "add"
          /\ answer[m] = "202" /\ m \notin added => handler[m] = "submit"

MessageInv ==
    /\ \A m \in Msgs : MessageOK(m)
    /\ \A k \in Clients, m \in Msgs : call[k].msg = {m} => RequestOK(k, m)
    /\ \A j, k \in Clients, m \in Msgs :
          call[j].msg = {m} /\ call[k].msg = {m} => j = k

LEMMA MessageInvMeaning == MessageInv => AnswersAgree
BY DEF MessageInv, MessageOK, AnswersAgree

\* Steps that concern no message.
LEMMA MessageSame ==
    ASSUME MessageInv, answer' = answer, handler' = handler, queued' = queued,
           added' = added, restarts' = restarts, call' = call
    PROVE  MessageInv'
BY DEF MessageInv, MessageOK, RequestOK

\* Steps of the request that carries message m.
LEMMA MessageStep ==
    ASSUME MessageInv, NEW k \in Clients, NEW m \in Msgs, call[k].msg = {m},
           \A j \in Clients : j # k => call'[j] = call[j],
           handler' = handler, restarts' = restarts,
           \A n \in Msgs : n # m => /\ answer'[n] = answer[n]
                                    /\ n \in queued' <=> n \in queued
                                    /\ n \in added' <=> n \in added,
           MessageOK(m)',
           call'[k].msg = {} \/ (call'[k].msg = {m} /\ RequestOK(k, m)')
    PROVE  MessageInv'
<1>1. ASSUME NEW n \in Msgs PROVE MessageOK(n)'
  <2>1. CASE n = m
    BY <2>1
  <2>2. CASE n # m
    BY <2>2 DEF MessageInv, MessageOK
  <2>3. QED BY <2>1, <2>2
<1>2. ASSUME NEW j \in Clients, NEW n \in Msgs, call'[j].msg = {n}
      PROVE  /\ call[j].msg = {n}
             /\ RequestOK(j, n)'
  <2>1. CASE j = k
    <3>1. n = m
      BY <1>2, <2>1
    <3>2. QED BY <1>2, <2>1, <3>1
  <2>2. CASE j # k
    <3>1. call'[j] = call[j] /\ call[j].msg = {n} /\ RequestOK(j, n)
      BY <1>2, <2>2 DEF MessageInv
    <3>2. n # m
      BY <2>2, <3>1 DEF MessageInv
    <3>3. QED BY <3>1, <3>2 DEF RequestOK
  <2>3. QED BY <2>1, <2>2
<1>3. \A i, j \in Clients, n \in Msgs :
         call'[i].msg = {n} /\ call'[j].msg = {n} => i = j
  BY <1>2 DEF MessageInv
<1>4. QED BY <1>1, <1>2, <1>3 DEF MessageInv

\* A request begins: with a message that no handler took before, or without.
LEMMA MessageBegin ==
    ASSUME CallTypeOK, MessageTypeOK, MessageInv, NEW k \in Clients, NEW r,
           CallOK(r), call' = [call EXCEPT ![k] = r], call[k] = NoCall,
           queued' = queued, added' = added, answer' = answer, restarts' = restarts,
           \/ r.msg = {} /\ handler' = handler
           \/ \E m \in Msgs :
                 /\ r.msg = {m} /\ handler[m] = "none"
                 /\ handler' = [handler EXCEPT ![m] = r.op]
                 /\ \/ r.op = "submit" /\ r.at = "manager"
                    \/ r.op = "add" /\ r.at = "add"
    PROVE  CallTypeOK' /\ MessageInv' /\ MessageTypeOK'
<1>1. CallTypeOK' /\ call'[k] = r /\ \A j \in Clients : j # k => call'[j] = call[j]
  BY CallSet
<1>2. CASE r.msg = {} /\ handler' = handler
  <2>1. \A m \in Msgs : MessageOK(m)'
    BY <1>2 DEF MessageInv, MessageOK
  <2>2. \A j \in Clients, n \in Msgs :
           call'[j].msg = {n} => j # k /\ call[j].msg = {n} /\ RequestOK(j, n)'
    BY <1>1, <1>2 DEF MessageInv, RequestOK
  <2>3. QED BY <1>1, <1>2, <2>1, <2>2 DEF MessageInv, MessageTypeOK
<1>3. ASSUME NEW m \in Msgs, r.msg = {m}, handler[m] = "none",
             handler' = [handler EXCEPT ![m] = r.op],
             \/ r.op = "submit" /\ r.at = "manager"
             \/ r.op = "add" /\ r.at = "add"
      PROVE  MessageInv' /\ MessageTypeOK'
  <2>1. handler'[m] = r.op /\ \A n \in Msgs : n # m => handler'[n] = handler[n]
    BY <1>3 DEF MessageTypeOK
  <2>2. MessageTypeOK'
    BY <1>3 DEF MessageTypeOK
  <2>3. answer[m] = "none" /\ m \notin queued /\ m \notin added
    BY <1>3 DEF MessageInv, MessageOK
  <2>4. \A j \in Clients : call[j].msg # {m}
    BY <1>3 DEF MessageInv, RequestOK
  <2>5. ASSUME NEW n \in Msgs PROVE MessageOK(n)'
    <3>1. CASE n = m
      BY <1>3, <2>1, <2>3, <3>1 DEF MessageOK
    <3>2. CASE n # m
      BY <2>1, <3>2 DEF MessageInv, MessageOK
    <3>3. QED BY <3>1, <3>2
  <2>6. ASSUME NEW j \in Clients, NEW n \in Msgs, call'[j].msg = {n}
        PROVE  RequestOK(j, n)' /\ (j # k => call[j].msg = {n} /\ n # m)
    <3>1. CASE j = k
      <4>1. n = m /\ call'[j] = r
        BY <1>1, <1>3, <2>6, <3>1
      <4>2. QED BY <1>3, <2>1, <2>3, <3>1, <4>1 DEF RequestOK
    <3>2. CASE j # k
      <4>1. call'[j] = call[j] /\ RequestOK(j, n) /\ n # m
        BY <1>1, <2>4, <2>6, <3>2 DEF MessageInv
      <4>2. QED BY <2>1, <2>6, <4>1 DEF RequestOK
    <3>3. QED BY <3>1, <3>2
  <2>7. \A i, j \in Clients, n \in Msgs :
           call'[i].msg = {n} /\ call'[j].msg = {n} => i = j
    <3>1. call'[k].msg = {m}
      BY <1>1, <1>3
    <3>2. QED BY <2>6, <3>1 DEF MessageInv
  <2>8. QED BY <2>2, <2>5, <2>6, <2>7 DEF MessageInv
<1>4. QED BY <1>1, <1>2, <1>3

-----------------------------------------------------------------------------
(* Every step of the specification.                                        *)

\* Every step keeps the histories.
LEMMA StepHistory ==
    ASSUME ConvTypeOK, CallTypeOK, HistoryInv, [Next]_vars
    PROVE  ConvTypeOK' /\ HistoryInv'
<1>1. ASSUME UNCHANGED convVars PROVE ConvTypeOK' /\ HistoryInv'
  BY <1>1, HistSame DEF convVars
<1>2. ASSUME NEW k \in Clients, NEW c \in Convs, NEW u \in Users,
             createConversation(k, c, u)
      PROVE  UNCHANGED convVars
  BY <1>2 DEF createConversation, Begin
<1>3. ASSUME NEW k \in Clients, NEW c \in Convs, getConversation(k, c)
      PROVE  UNCHANGED convVars
  BY <1>3 DEF getConversation, Begin
<1>4. ASSUME NEW k \in Clients, NEW u \in Users, listUserConversations(k, u)
      PROVE  UNCHANGED convVars
  BY <1>4 DEF listUserConversations, Begin
<1>5. ASSUME NEW k \in Clients, NEW m \in Msgs,
             submitMessage(k, m) \/ addMessageToConversation(k, m)
      PROVE  UNCHANGED convVars
  BY <1>5 DEF submitMessage, addMessageToConversation, BeginMessage, Begin
<1>6. ASSUME NEW u, NEW p, SetUserPriority(u, p) PROVE UNCHANGED convVars
  BY <1>6 DEF SetUserPriority
<1>7. ASSUME NEW k \in Clients, ConvStep(k) PROVE ConvTypeOK' /\ HistoryInv'
  <2>1. CASE ListIDs(k) \/ ListNext(k)
    BY <1>1, <2>1 DEF ListIDs, ListNext
  <2>2. ASSUME NEW c \in Convs, GetLookup(k, c) \/ ListLoad(k, c)
        PROVE  UNCHANGED convVars
    BY <2>2 DEF GetLookup, ListLoad
  <2>3. ASSUME NEW c \in Convs, GetLoad(k, c) \/ GetFill(k, c) \/ ListFill(k, c)
        PROVE  ConvTypeOK' /\ HistoryInv'
    BY <2>3, GetLoadKeeps, GetFillKeeps, ListFillKeeps
  <2>4. QED BY <1>1, <1>7, <2>1, <2>2, <2>3 DEF ConvStep
<1>8. ASSUME NEW k \in Clients, NEW m \in Msgs, GetQueueManager(k, m) \/ Push(k, m)
      PROVE  UNCHANGED convVars
  BY <1>8 DEF GetQueueManager, Push
<1>9. ASSUME NEW k \in Clients, NEW c \in Convs, NEW m \in Msgs,
             updateConversationWithMessage(k, c, m) \/ AddFirst(k, c, m)
      PROVE  AddMessage(c, m) \/ UNCHANGED convVars
  BY <1>9 DEF updateConversationWithMessage, AddFirst
<1>10. ASSUME NEW k \in Clients, RequestStep(k) PROVE ConvTypeOK' /\ HistoryInv'
  BY <1>1, <1>7, <1>8, <1>9, <1>10, AddMessageKeeps DEF RequestStep
<1>11. CASE CleanupStep
  <2>1. CASE CleanupList
    BY <1>1, <2>1 DEF CleanupList
  <2>2. ASSUME NEW c \in Convs, CleanupDelete(c) PROVE ConvTypeOK' /\ HistoryInv'
    <3>1. DeleteConversation(c) \/ UNCHANGED convVars
      BY <2>2 DEF CleanupDelete
    <3>2. QED BY <1>1, <3>1, DeleteKeeps
  <2>3. QED BY <1>11, <2>1, <2>2 DEF CleanupStep
<1>12. ASSUME NEW c \in Convs, updateConversationState(c) \/ StoreExpires(c)
       PROVE  ConvTypeOK' /\ HistoryInv'
  BY <1>12, UpdateKeeps, ExpireKeeps DEF updateConversationState
<1>13. CASE StopAll
  BY <1>1, <1>13 DEF StopAll
<1>14. CASE Restart
  BY <1>14, RestartKeeps DEF Restart
<1>15. CASE UNCHANGED vars
  BY <1>1, <1>15 DEF vars
<1>16. QED
  BY <1>1, <1>2, <1>3, <1>4, <1>5, <1>6, <1>10, <1>11, <1>12, <1>13, <1>14, <1>15
  DEF Next

\* The handler of m answers.
LEMMA MessageAnswered ==
    ASSUME CallTypeOK, MessageTypeOK, MessageInv, NEW k \in Clients, NEW m \in Msgs,
           call[k].msg = {m}, NEW status \in {"202", "500"}, Answer(k, m, status),
           handler' = handler, restarts' = restarts,
           queued' \in {queued, queued \cup {m}}, added' \in {added, added \cup {m}},
           m \in queued' <=> status = "202",
           status = "500" /\ m \in added' => call[k].op = "add",
           status = "202" /\ m \notin added' => call[k].op = "submit"
    PROVE  CallTypeOK' /\ MessageTypeOK' /\ MessageInv'
<1>1. answer' = [answer EXCEPT ![m] = status] /\ call' = [call EXCEPT ![k] = NoCall]
  BY DEF Answer
<1>2. /\ CallTypeOK' /\ call'[k].msg = {}
      /\ \A j \in Clients : j # k => call'[j] = call[j]
  BY <1>1, CallEnds
<1>3. answer'[m] = status /\ \A n \in Msgs : n # m => answer'[n] = answer[n]
  BY <1>1 DEF MessageTypeOK
<1>4. MessageTypeOK'
  BY <1>1 DEF MessageTypeOK
<1>5. handler[m] = call[k].op /\ call[k].op \in {"submit", "add"}
  BY DEF MessageInv, RequestOK
<1>6. MessageOK(m)'
  BY <1>3, <1>5 DEF MessageOK
<1>7. QED BY <1>2, <1>3, <1>4, <1>6, MessageStep

\* The handler of m goes on to its next step, a.
LEMMA MessageGoesOn ==
    ASSUME CallTypeOK, MessageTypeOK, MessageInv, NEW k \in Clients, NEW m \in Msgs,
           call[k].msg = {m}, NEW a \in {"manager", "push", "lookup"},
           call' = Moved(k, a),
           handler' = handler, restarts' = restarts, answer' = answer,
           queued' \in {queued, queued \cup {m}}, added' \in {added, added \cup {m}},
           \/ /\ call[k].op = "submit" /\ a \in {"manager", "push"}
              /\ m \notin queued' /\ m \notin added'
           \/ /\ call[k].op = "submit" /\ a = "lookup"
              /\ m \in queued' /\ m \notin added'
           \/ /\ call[k].op = "add" /\ a \in {"manager", "push"}
              /\ m \notin queued' /\ m \in added'
    PROVE  CallTypeOK' /\ MessageTypeOK' /\ MessageInv'
<1>1. answer[m] = "none" /\ handler[m] = call[k].op /\ call[k].at # "none"
  BY DEF MessageInv, RequestOK
<1>2. /\ CallTypeOK' /\ call'[k].at = a /\ call'[k].op = call[k].op
      /\ call'[k].msg = {m} /\ \A j \in Clients : j # k => call'[j] = call[j]
  BY <1>1, CallMoves
<1>3. MessageTypeOK'
  BY DEF MessageTypeOK
<1>4. RequestOK(k, m)'
  BY <1>1, <1>2 DEF RequestOK
<1>5. MessageOK(m)'
  BY <1>1 DEF MessageOK
<1>6. QED BY <1>2, <1>3, <1>4, <1>5, MessageStep

LEMMA QueueManagerMessages ==
    ASSUME CallTypeOK, MessageTypeOK, MessageInv, NEW k \in Clients, NEW m \in Msgs,
           GetQueueManager(k, m)
    PROVE  CallTypeOK' /\ MessageTypeOK' /\ MessageInv'
<1>1. /\ call[k].at = "manager" /\ call[k].msg = {m}
      /\ UNCHANGED <<queued, handler, added, restarts>>
      /\ \/ call' = Moved(k, "push") /\ answer' = answer
         \/ Answer(k, m, "500")
  BY DEF GetQueueManager, Moved
<1>2. /\ call[k].op \in {"submit", "add"} /\ m \notin queued
      /\ m \in added <=> call[k].op = "add"
  BY <1>1 DEF MessageInv, RequestOK
<1>3. CASE call' = Moved(k, "push") /\ answer' = answer
  BY <1>1, <1>2, <1>3, MessageGoesOn
<1>4. CASE Answer(k, m, "500")
  BY <1>1, <1>2, <1>4, MessageAnswered
<1>5. QED BY <1>1, <1>3, <1>4

LEMMA PushMessages ==
    ASSUME CallTypeOK, MessageTypeOK, MessageInv, NEW k \in Clients, NEW m \in Msgs,
           Push(k, m)
    PROVE  CallTypeOK' /\ MessageTypeOK' /\ MessageInv'
<1>1. /\ call[k].at = "push" /\ call[k].msg = {m}
      /\ UNCHANGED <<handler, added, restarts>>
  BY DEF Push
<1>2. /\ call[k].op \in {"submit", "add"} /\ m \notin queued
      /\ m \in added <=> call[k].op = "add"
  BY <1>1 DEF MessageInv, RequestOK
<1>3. CASE ~ Accepts(m)
  <2>1. Answer(k, m, "500") /\ queued' = queued
    BY <1>3 DEF Push
  <2>2. QED BY <1>1, <1>2, <2>1, MessageAnswered
<1>4. CASE Accepts(m) /\ call[k].op = "submit"
  <2>1. queued' = queued \cup {m} /\ call' = Moved(k, "lookup") /\ answer' = answer
    BY <1>4 DEF Push, Moved
  <2>2. QED BY <1>1, <1>2, <1>4, <2>1, MessageGoesOn
<1>5. CASE Accepts(m) /\ call[k].op # "submit"
  <2>1. queued' = queued \cup {m} /\ Answer(k, m, "202")
    BY <1>5 DEF Push
  <2>2. QED BY <1>1, <1>2, <1>5, <2>1, MessageAnswered
<1>6. QED BY <1>3, <1>4, <1>5

LEMMA AddMessages ==
    ASSUME CallTypeOK, MessageTypeOK, MessageInv, NEW k \in Clients, NEW c \in Convs,
           NEW m \in Msgs, updateConversationWithMessage(k, c, m) \/ AddFirst(k, c, m)
    PROVE  CallTypeOK' /\ MessageTypeOK' /\ MessageInv'
<1>1. CASE updateConversationWithMessage(k, c, m)
  <2>1. /\ call[k].op = "submit" /\ call[k].at = "add" /\ call[k].msg = {m}
        /\ added' \in {added, added \cup {m}} /\ Answer(k, m, "202")
        /\ UNCHANGED <<queued, handler, restarts>>
    BY <1>1 DEF updateConversationWithMessage, AddsTo
  <2>2. m \in queued
    BY <2>1 DEF MessageInv, RequestOK
  <2>3. QED BY <2>1, <2>2, MessageAnswered
<1>2. CASE AddFirst(k, c, m)
  <2>1. /\ call[k].op = "add" /\ call[k].at = "add" /\ call[k].msg = {m}
        /\ UNCHANGED <<queued, handler, restarts>>
        /\ \/ added' = added \cup {m} /\ call' = Moved(k, "manager") /\ answer' = answer
           \/ added' = added /\ Answer(k, m, "500")
    BY <1>2 DEF AddFirst, AddsTo, Moved
  <2>2. m \notin queued
    BY <2>1 DEF MessageInv, RequestOK
  <2>3. CASE added' = added \cup {m} /\ call' = Moved(k, "manager") /\ answer' = answer
    BY <2>1, <2>2, <2>3, MessageGoesOn
  <2>4. CASE added' = added /\ Answer(k, m, "500")
    BY <2>1, <2>2, <2>4, MessageAnswered
  <2>5. QED BY <2>1, <2>3, <2>4
<1>3. QED BY <1>1, <1>2

\* GetConversation takes a message along, GetUserConversations has none.
LEMMA ConvStepMessages ==
    ASSUME ConvTypeOK, CallTypeOK, MessageTypeOK, MessageInv, NEW k \in Clients,
           ConvStep(k), UNCHANGED apiVars
    PROVE  CallTypeOK' /\ MessageTypeOK' /\ MessageInv'
<1>1. UNCHANGED <<answer, handler, queued, added, restarts>>
  BY DEF apiVars, messageVars
<1>2. /\ CallTypeOK' /\ \A j \in Clients : j # k => call'[j] = call[j]
      /\ \/ call'[k].msg = {}
         \/ call[k].at \in Listings /\ call'[k].msg = call[k].msg
         \/ /\ call[k].at \in Lookups
            /\ call'[k].msg = call[k].msg /\ call'[k].op = call[k].op
            /\ call'[k].at \in {"load", "fill", "add"}
  BY ConvStepCall
<1>3. MessageTypeOK'
  BY <1>1 DEF MessageTypeOK
<1>4. ASSUME NEW j \in Clients, NEW m \in Msgs, call'[j].msg = {m}
      PROVE  call[j].msg = {m} /\ RequestOK(j, m)'
  <2>1. CASE j # k
    BY <1>1, <1>2, <1>4, <2>1 DEF MessageInv, RequestOK
  <2>2. CASE j = k
    <3>1. call[k].msg = {m} /\ RequestOK(k, m)
      BY <1>2, <1>4, <2>2 DEF MessageInv
    <3>2. call[k].at \notin Listings
      BY <3>1 DEF RequestOK, Listings
    <3>3. /\ call[k].at \in Lookups /\ call'[k].op = call[k].op
          /\ call'[k].at \in {"load", "fill", "add"}
      BY <1>2, <1>4, <2>2, <3>2
    <3>4. QED BY <1>1, <2>2, <3>1, <3>3 DEF RequestOK, Lookups
  <2>3. QED BY <2>1, <2>2
<1>5. \A m \in Msgs : MessageOK(m)'
  BY <1>1 DEF MessageInv, MessageOK
<1>6. \A i, j \in Clients, m \in Msgs :
         call'[i].msg = {m} /\ call'[j].msg = {m} => i = j
  BY <1>4 DEF MessageInv
<1>7. QED BY <1>2, <1>3, <1>4, <1>5, <1>6 DEF MessageInv

\* The requests as they begin.
LEMMA BeginMessages ==
    ASSUME CallTypeOK, MessageTypeOK, MessageInv, NEW k \in Clients
    PROVE  /\ \A c \in Convs, u \in Users : createConversation(k, c, u) =>
                 CallTypeOK' /\ MessageTypeOK' /\ MessageInv'
           /\ \A c \in Convs : getConversation(k, c) =>
                 CallTypeOK' /\ MessageTypeOK' /\ MessageInv'
           /\ \A u \in Users : listUserConversations(k, u) =>
                 CallTypeOK' /\ MessageTypeOK' /\ MessageInv'
           /\ \A m \in Msgs : submitMessage(k, m) \/ addMessageToConversation(k, m) =>
                 CallTypeOK' /\ MessageTypeOK' /\ MessageInv'
<1>1. ASSUME NEW r, CallOK(r), r.msg = {}, Begin(k, r), UNCHANGED messageVars
      PROVE  CallTypeOK' /\ MessageTypeOK' /\ MessageInv'
  <2>1. /\ call[k] = NoCall /\ call' = [call EXCEPT ![k] = r]
        /\ UNCHANGED <<queued, added, answer, handler, restarts>>
    BY <1>1 DEF Begin, messageVars
  <2>2. QED BY <1>1, <2>1, MessageBegin
<1>2. ASSUME NEW c \in Convs, NEW u \in Users, createConversation(k, c, u)
      PROVE  CallTypeOK' /\ MessageTypeOK' /\ MessageInv'
  <2> DEFINE r == [NoCall EXCEPT !.op = "create", !.at = "lookup", !.conv = {c},
                                 !.user = {u}]
  <2>1. Begin(k, r) /\ UNCHANGED messageVars
    BY <1>2 DEF createConversation
  <2>2. CallOK(r) /\ r.msg = {}
    BY DEF NoCall, CallOK
  <2> HIDE DEF r
  <2>3. QED BY <1>1, <2>1, <2>2
<1>3. ASSUME NEW c \in Convs, getConversation(k, c)
      PROVE  CallTypeOK' /\ MessageTypeOK' /\ MessageInv'
  <2> DEFINE r == [NoCall EXCEPT !.op = "get", !.at = "lookup", !.conv = {c},
                                 !.user = {Anonymous}]
  <2>1. Begin(k, r) /\ UNCHANGED messageVars
    BY <1>3 DEF getConversation
  <2>2. CallOK(r) /\ r.msg = {}
    BY AnonymousType DEF NoCall, CallOK
  <2> HIDE DEF r
  <2>3. QED BY <1>1, <2>1, <2>2
<1>4. ASSUME NEW u \in Users, listUserConversations(k, u)
      PROVE  CallTypeOK' /\ MessageTypeOK' /\ MessageInv'
  <2> DEFINE r == [NoCall EXCEPT !.op = "list", !.at = "list", !.user = {u}]
  <2>1. Begin(k, r) /\ UNCHANGED messageVars
    BY <1>4 DEF listUserConversations
  <2>2. CallOK(r) /\ r.msg = {}
    BY DEF NoCall, CallOK
  <2> HIDE DEF r
  <2>3. QED BY <1>1, <2>1, <2>2
<1>5. ASSUME NEW m \in Msgs, NEW op, NEW at, BeginMessage(k, op, at, m),
             (op = "submit" /\ at = "manager") \/ (op = "add" /\ at = "add")
      PROVE  CallTypeOK' /\ MessageTypeOK' /\ MessageInv'
  <2> DEFINE r == [NoCall EXCEPT !.op = op, !.at = at, !.conv = {ConvOf[m]},
                                 !.user = {UserOf[m]}, !.msg = {m}]
  <2>1. /\ Begin(k, r) /\ handler[m] = "none" /\ handler' = [handler EXCEPT ![m] = op]
        /\ UNCHANGED <<queued, added, answer, restarts>>
    BY <1>5 DEF BeginMessage
  <2>2. call[k] = NoCall /\ call' = [call EXCEPT ![k] = r]
    BY <2>1 DEF Begin
  <2>3. UserOf[m] \in Users /\ at \notin {"fill", "eachFill"}
    BY <1>5, RequestType
  <2>4. CallOK(r) /\ r.op = op /\ r.at = at /\ r.msg = {m}
    BY <2>3 DEF NoCall, CallOK
  <2> HIDE DEF r
  <2>5. QED BY <1>5, <2>1, <2>2, <2>4, MessageBegin
<1>6. ASSUME NEW m \in Msgs, submitMessage(k, m) \/ addMessageToConversation(k, m)
      PROVE  CallTypeOK' /\ MessageTypeOK' /\ MessageInv'
  <2>1. \/ BeginMessage(k, "submit", "manager", m)
        \/ BeginMessage(k, "add", "add", m)
    BY <1>6 DEF submitMessage, addMessageToConversation
  <2>2. QED BY <1>5, <2>1
<1>7. QED BY <1>2, <1>3, <1>4, <1>6

\* A restart ends every request and empties the queues.
LEMMA RestartMessages ==
    ASSUME MessageTypeOK, MessageInv, Restart
    PROVE  CallTypeOK' /\ MessageTypeOK' /\ MessageInv'
<1>1. /\ call' = [k \in Clients |-> NoCall] /\ queued' = {}
      /\ restarts' = restarts + 1 /\ UNCHANGED <<answer, handler, added>>
  BY DEF Restart, ConvRestart
<1>2. DOMAIN call' = Clients /\ \A k \in Clients : call'[k] = NoCall
  BY <1>1
<1>3. CallTypeOK'
  BY <1>2, NoCallOK DEF CallTypeOK
<1>4. restarts' # 0 /\ restarts' \in Nat
  BY <1>1 DEF MessageTypeOK
<1>5. MessageTypeOK'
  BY <1>1, <1>4 DEF MessageTypeOK
<1>6. \A m \in Msgs : MessageOK(m)'
  BY <1>1, <1>4 DEF MessageInv, MessageOK
<1>7. \A k \in Clients : call'[k].msg = {}
  BY <1>2, NoCallOK
<1>8. QED BY <1>3, <1>5, <1>6, <1>7 DEF MessageInv

\* Every step keeps what is known of the messages.
LEMMA StepMessages ==
    ASSUME ConvTypeOK, CallTypeOK, MessageTypeOK, MessageInv, [Next]_vars
    PROVE  CallTypeOK' /\ MessageTypeOK' /\ MessageInv'
<1>1. ASSUME UNCHANGED <<call, answer, handler, queued, added, restarts>>
      PROVE  CallTypeOK' /\ MessageTypeOK' /\ MessageInv'
  BY <1>1, MessageSame DEF CallTypeOK, CallOK, MessageTypeOK
<1>2. ASSUME NEW u, NEW p, SetUserPriority(u, p)
      PROVE  UNCHANGED <<call, answer, handler, queued, added, restarts>>
  BY <1>2 DEF SetUserPriority
<1>3. ASSUME NEW k \in Clients, RequestStep(k)
      PROVE  CallTypeOK' /\ MessageTypeOK' /\ MessageInv'
  BY <1>3, ConvStepMessages, QueueManagerMessages, PushMessages, AddMessages
  DEF RequestStep
<1>4. ASSUME CleanupStep, UNCHANGED apiVars
      PROVE  UNCHANGED <<call, answer, handler, queued, added, restarts>>
  BY <1>4 DEF CleanupStep, CleanupList, CleanupDelete, DeleteConversation, apiVars,
              messageVars
<1>5. ASSUME NEW c \in Convs, updateConversationState(c)
      PROVE  UNCHANGED <<call, answer, handler, queued, added, restarts>>
  BY <1>5 DEF updateConversationState, UpdateConversation, messageVars
<1>6. ASSUME NEW c \in Convs, StoreExpires(c), UNCHANGED apiVars
      PROVE  UNCHANGED <<call, answer, handler, queued, added, restarts>>
  BY <1>6 DEF StoreExpires, apiVars, messageVars
<1>7. ASSUME StopAll
      PROVE  UNCHANGED <<call, answer, handler, queued, added, restarts>>
  BY <1>7 DEF StopAll
<1>8. ASSUME UNCHANGED vars
      PROVE  UNCHANGED <<call, answer, handler, queued, added, restarts>>
  BY <1>8 DEF vars, apiVars, messageVars
<1>9. QED
  BY <1>1, <1>2, <1>3, <1>4, <1>5, <1>6, <1>7, <1>8, BeginMessages, RestartMessages
  DEF Next

-----------------------------------------------------------------------------
(* The theorems.                                                           *)

SubInv == ConvTypeOK /\ CallTypeOK /\ HistoryInv /\ MessageTypeOK /\ MessageInv

LEMMA SubInvInit == Init => SubInv
<1> SUFFICES ASSUME Init PROVE SubInv
  OBVIOUS
<1>1. /\ conversations = [c \in Convs |-> {}] /\ store = [c \in Convs |-> {}]
      /\ log = [c \in Convs |-> <<>>] /\ spoiled = [c \in Convs |-> "no"]
      /\ call = [k \in Clients |-> NoCall]
  BY DEF Init, ConvInit
<1>2. ConvTypeOK
  BY <1>1, EmptySeq DEF ConvTypeOK
<1>3. CallTypeOK /\ \A k \in Clients : call[k].msg = {}
  BY <1>1, NoCallOK DEF CallTypeOK
<1>4. HistoryInv
  BY <1>1 DEF HistoryInv, HistOK, MemOK
<1>5. MessageTypeOK
  BY DEF Init, MessageTypeOK
<1>6. MessageInv
  BY <1>3 DEF Init, MessageInv, MessageOK
<1>7. QED BY <1>2, <1>3, <1>4, <1>5, <1>6 DEF SubInv

LEMMA SubInvNext == SubInv /\ [Next]_vars => SubInv'
BY StepHistory, StepMessages DEF SubInv

LEMMA SubInvAlways == Spec => []SubInv
BY SubInvInit, SubInvNext, PTL DEF Spec

(* A conversation that nothing has spoiled has, in memory and in the       *)
(* store, the messages that AddMessage added to it (the last               *)
(* MaxContextLength of them), whatever the interleaving of                 *)
(* GetConversation, GetUserConversations, AddMessage, the clean-up, the    *)
(* expiry in Redis and restarts (StateManager).                            *)
THEOREM HistoryAlwaysKept == Spec => []HistoryKept
<1>1. SubInv => HistoryKept
  BY HistoryInvMeaning DEF SubInv
<1>2. QED BY <1>1, SubInvAlways, PTL

(* The answer of submitMessage and addMessageToConversation tells whether  *)
(* the message was queued; one that is in its conversation but was not     *)
(* queued was refused by addMessageToConversation, and one that was queued *)
(* but is in no conversation was accepted by submitMessage.                *)
THEOREM AnswersAlwaysAgree == Spec => []AnswersAgree
<1>1. SubInv => AnswersAgree
  BY MessageInvMeaning DEF SubInv
<1>2. QED BY <1>1, SubInvAlways, PTL

=============================================================================
