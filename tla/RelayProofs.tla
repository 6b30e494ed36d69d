---------------------------- MODULE RelayProofs ----------------------------
(***************************************************************************)
(* That the relay's table stays sound and that no stream is half paired,   *)
(* for any number of hosts, joiners and codes and any bounds.  RelayInv is *)
(* inductive.  It is proved in two parts: the table, which only the four   *)
(* operations under the mutex change, and the threads.                     *)
(***************************************************************************)
EXTENDS Relay, FiniteSetTheorems, TLAPS

TableInv ==
  /\ codes \in [Codes -> Hosts \cup {None}] /\ waiting \in [Codes -> Nat]
  /\ tokens \in [Joiners -> Codes \cup {None}]
  /\ \A c \in Codes : waiting[c] = Cardinality(Awaiting(c)) /\ waiting[c] <= MaxWaiting
  /\ \A j \in Joiners : tokens[j] # None => tokens[j] \in Live

Attended ==
  \A j \in Joiners : tokens[j] # None => join[j] \in {"enlisted", "waiting", "claiming"}

ThreadTypes ==
  /\ hosting \in [Hosts -> {"new", "issued", "listening", "refused", "over"}]
  /\ join \in [Joiners -> {"new", "enlisted", "waiting", "claiming", "matched", "paired",
                           "refused", "over"}]
  /\ told \in [Joiners -> Hosts \cup {None}]
  /\ accept \in [Joiners -> {"none", "asking", "claimed", "sent", "paired", "refused", "closed"}]
  /\ ctl \in [Hosts -> Seq(Lines)]
  /\ program \in [Hosts -> {"opening", "open", "lost", "gone"}]
  /\ ended \subseteq Ends /\ heard \subseteq Ends

ThreadInv == ThreadTypes /\ Attended /\ NoHalfPair /\ Traced

LEMMA Parts == RelayInv <=> TableInv /\ ThreadInv
BY DEF RelayInv, TableInv, ThreadInv, ThreadTypes, Attended, TypeOK, TokensAttended

LEMMA PartsNext == TableInv' /\ ThreadInv' => RelayInv'
BY DEF RelayInv, TableInv, ThreadInv, ThreadTypes, Attended, TypeOK, TokensAttended

(***************************************************************************)
(* The table.                                                              *)
(***************************************************************************)

\* The joiners that wait for a code are finitely many.
LEMMA AwaitingFinite == ASSUME NEW c PROVE IsFiniteSet(Awaiting(c))
BY FS_Subset, RelayAssumption DEF Awaiting

LEMMA TableInit == Init => TableInv
<1> SUFFICES ASSUME Init PROVE TableInv
  OBVIOUS
<1>1. ASSUME NEW c \in Codes PROVE waiting[c] = Cardinality(Awaiting(c)) /\ waiting[c] <= MaxWaiting
  <2>1. Awaiting(c) = {}
    BY RelayAssumption DEF Init, Awaiting
  <2>2. QED
    BY <2>1, FS_EmptySet, RelayAssumption DEF Init
<1>2. QED
  BY <1>1 DEF Init, TableInv

\* A code that is drawn was not live, so nobody waits for it (State::host).
LEMMA IssueCodeKeeps ==
  ASSUME TableInv, NEW h \in Hosts, NEW c \in Codes, IssueCode(h, c)
  PROVE  TableInv'
<1>1. \A d \in Codes : Awaiting(d)' = Awaiting(d)
  BY DEF IssueCode, Awaiting
<1>2. \A d \in Codes : d \in Live => d \in Live'
  BY RelayAssumption DEF IssueCode, Live, TableInv
<1>3. codes' \in [Codes -> Hosts \cup {None}]
  BY DEF IssueCode, TableInv
<1>4. QED
  BY <1>1, <1>2, <1>3 DEF IssueCode, TableInv

\* retire_code takes out a code's tokens with its count, and no other's.
LEMMA RetireKeeps ==
  ASSUME TableInv, NEW h \in Hosts, Retire(h)
  PROVE  TableInv'
<1>1. /\ codes' \in [Codes -> Hosts \cup {None}] /\ waiting' \in [Codes -> Nat]
      /\ tokens' \in [Joiners -> Codes \cup {None}]
  BY DEF Retire, TableInv
<1>2. ASSUME NEW d \in Codes
      PROVE  waiting'[d] = Cardinality(Awaiting(d)') /\ waiting'[d] <= MaxWaiting
  <2>1. CASE d \in CodeOf(h)
    <3>1. Awaiting(d)' = {}
      BY <2>1, RelayAssumption DEF Retire, Awaiting, TableInv, CodeOf
    <3>2. QED
      BY <2>1, <3>1, FS_EmptySet, RelayAssumption DEF Retire
  <2>2. CASE d \notin CodeOf(h)
    <3>1. Awaiting(d)' = Awaiting(d)
      BY <2>2, RelayAssumption DEF Retire, Awaiting, TableInv, CodeOf
    <3>2. QED
      BY <2>2, <3>1 DEF Retire, TableInv
  <2>3. QED
    BY <2>1, <2>2
<1>3. ASSUME NEW j \in Joiners, tokens'[j] # None
      PROVE  tokens'[j] \in Live'
  BY <1>3, RelayAssumption DEF Retire, Live, TableInv, CodeOf
<1>4. QED
  BY <1>1, <1>2, <1>3 DEF TableInv

\* enlist counts the joiner whose token it puts in the table.
LEMMA EnlistKeeps ==
  ASSUME TableInv, NEW j \in Joiners, NEW c \in Codes, tokens[j] = None, Enlist(j, c)
  PROVE  TableInv'
<1>1. /\ waiting' \in [Codes -> Nat] /\ tokens' \in [Joiners -> Codes \cup {None}]
  BY DEF Enlist, TableInv
<1>2. ASSUME NEW d \in Codes
      PROVE  waiting'[d] = Cardinality(Awaiting(d)') /\ waiting'[d] <= MaxWaiting
  <2>1. CASE d = c
    <3>1. Awaiting(d)' = Awaiting(d) \cup {j} /\ j \notin Awaiting(d)
      BY <2>1, RelayAssumption DEF Enlist, Awaiting, TableInv
    <3>2. Cardinality(Awaiting(d)') = Cardinality(Awaiting(d)) + 1
      BY <3>1, AwaitingFinite, FS_AddElement
    <3>3. QED
      BY <2>1, <3>2, RelayAssumption DEF Enlist, TableInv
  <2>2. CASE d # c
    <3>1. Awaiting(d)' = Awaiting(d)
      BY <2>2, RelayAssumption DEF Enlist, Awaiting, TableInv
    <3>2. QED
      BY <2>2, <3>1 DEF Enlist, TableInv
  <2>3. QED
    BY <2>1, <2>2
<1>3. \A k \in Joiners : tokens'[k] # None => tokens'[k] \in Live'
  BY DEF Enlist, Live, TableInv
<1>4. QED
  BY <1>1, <1>2, <1>3 DEF TableInv, Enlist

\* claim counts down the joiner whose token it takes out, once.
LEMMA ClaimKeeps ==
  ASSUME TableInv, NEW j \in Joiners, Claim(j)
  PROVE  TableInv'
<1>1. /\ waiting' \in [Codes -> Nat] /\ tokens' \in [Joiners -> Codes \cup {None}]
  BY DEF Claim, TableInv
<1>2. ASSUME NEW d \in Codes
      PROVE  waiting'[d] = Cardinality(Awaiting(d)') /\ waiting'[d] <= MaxWaiting
  <2>1. CASE tokens[j] = d
    <3>1. j \in Awaiting(d) /\ Awaiting(d)' = Awaiting(d) \ {j}
      BY <2>1, RelayAssumption DEF Claim, Awaiting, TableInv
    <3>2. Cardinality(Awaiting(d)') = Cardinality(Awaiting(d)) - 1
      BY <3>1, AwaitingFinite, FS_RemoveElement
    <3>3. Cardinality(Awaiting(d)) \in Nat /\ Cardinality(Awaiting(d)) # 0
      BY <3>1, AwaitingFinite, FS_CardinalityType, FS_EmptySet
    <3>4. d \in Live
      BY <2>1, RelayAssumption DEF TableInv
    <3>5. QED
      BY <2>1, <3>2, <3>3, <3>4, RelayAssumption DEF Claim, TableInv
  <2>2. CASE tokens[j] # d
    <3>1. Awaiting(d)' = Awaiting(d)
      BY <2>2, RelayAssumption DEF Claim, Awaiting, TableInv
    <3>2. QED
      BY <2>2, <3>1 DEF Claim, TableInv
  <2>3. QED
    BY <2>1, <2>2
<1>3. \A k \in Joiners : tokens'[k] # None => tokens'[k] \in Live'
  BY DEF Claim, Live, TableInv
<1>4. QED
  BY <1>1, <1>2, <1>3 DEF TableInv, Claim

LEMMA SameTable ==
  ASSUME TableInv, UNCHANGED table
  PROVE  TableInv'
BY DEF TableInv, table, Awaiting, Live

(***************************************************************************)
(* The threads and the programs.                                           *)
(***************************************************************************)

LEMMA ThreadInit == Init => ThreadInv
<1> SUFFICES ASSUME Init PROVE ThreadInv
  OBVIOUS
<1>1. ThreadTypes
  BY DEF Init, ThreadTypes, Ends
<1>2. Attended /\ NoHalfPair /\ Traced
  BY DEF Init, Attended, NoHalfPair, Traced
<1>3. QED
  BY <1>1, <1>2 DEF ThreadInv

\* A line written to a host is one a joiner that has asked, or its code, stands for.
LEMMA WriteLine ==
  ASSUME ctl \in [Hosts -> Seq(Lines)], NEW h, NEW l \in Lines, Write(h, l)
  PROVE  /\ ctl' \in [Hosts -> Seq(Lines)]
         /\ \A g \in Hosts : \A i \in DOMAIN ctl'[g] :
              ctl'[g][i] = l \/ \E k \in DOMAIN ctl[g] : ctl'[g][i] = ctl[g][k]
<1>1. ASSUME NEW g \in Hosts
      PROVE  ctl'[g] = ctl[g] \/ ctl'[g] = Append(ctl[g], l)
  BY DEF Write
<1>2. ctl' \in [Hosts -> Seq(Lines)]
  <2>1. \A g \in Hosts : Append(ctl[g], l) \in Seq(Lines)
    OBVIOUS
  <2>2. \A g \in Hosts : ctl'[g] \in Seq(Lines)
    BY <1>1, <2>1
  <2>3. ctl' = [g \in Hosts |-> ctl'[g]]
    BY DEF Write
  <2>4. QED
    BY <2>2, <2>3
<1>3. ASSUME NEW g \in Hosts, NEW i \in DOMAIN ctl'[g]
      PROVE  ctl'[g][i] = l \/ \E k \in DOMAIN ctl[g] : ctl'[g][i] = ctl[g][k]
  <2>1. CASE ctl'[g] = ctl[g]
    BY <2>1
  <2>2. CASE ctl'[g] = Append(ctl[g], l)
    <3>1. i \in 1 .. Len(ctl[g]) + 1 /\ ctl[g] \in Seq(Lines)
      BY <2>2
    <3>2. CASE i = Len(ctl[g]) + 1
      BY <2>2, <3>1, <3>2
    <3>3. CASE i \in 1 .. Len(ctl[g])
      BY <2>2, <3>1, <3>3
    <3>4. QED
      BY <3>1, <3>2, <3>3
  <2>3. QED
    BY <1>1, <2>1, <2>2
<1>4. QED
  BY <1>2, <1>3

\* A line read leaves a queue of lines that were in it.
LEMMA ReadLine ==
  ASSUME ctl \in [Hosts -> Seq(Lines)], NEW h \in Hosts, ctl[h] # <<>>,
         ctl' = [ctl EXCEPT ![h] = Tail(@)]
  PROVE  /\ ctl' \in [Hosts -> Seq(Lines)] /\ Head(ctl[h]) \in Lines
         /\ \A g \in Hosts : \A i \in DOMAIN ctl'[g] :
              \E k \in DOMAIN ctl[g] : ctl'[g][i] = ctl[g][k]
         /\ \E k \in DOMAIN ctl[h] : Head(ctl[h]) = ctl[h][k]
<1>1. ASSUME NEW g \in Hosts, NEW i \in DOMAIN ctl'[g]
      PROVE  \E k \in DOMAIN ctl[g] : ctl'[g][i] = ctl[g][k]
  <2>1. CASE g = h
    <3>1. i \in 1 .. Len(ctl[h]) - 1 /\ ctl'[g][i] = ctl[h][i + 1]
      BY <2>1
    <3>2. i + 1 \in DOMAIN ctl[h]
      BY <3>1
    <3>3. QED
      BY <2>1, <3>1, <3>2
  <2>2. CASE g # h
    BY <2>2
  <2>3. QED
    BY <2>1, <2>2
<1>2. Head(ctl[h]) \in Lines /\ Tail(ctl[h]) \in Seq(Lines)
  OBVIOUS
<1>3. Head(ctl[h]) = ctl[h][1] /\ 1 \in DOMAIN ctl[h]
  OBVIOUS
<1>4. QED
  BY <1>1, <1>2, <1>3

LEMMA ForgetLines ==
  ASSUME ctl \in [Hosts -> Seq(Lines)], NEW h \in Hosts, ctl' = [ctl EXCEPT ![h] = <<>>]
  PROVE  /\ ctl' \in [Hosts -> Seq(Lines)]
         /\ \A g \in Hosts : \A i \in DOMAIN ctl'[g] :
              \E k \in DOMAIN ctl[g] : ctl'[g][i] = ctl[g][k]
<1>1. <<>> \in Seq(Lines) /\ DOMAIN <<>> = {}
  OBVIOUS
<1>2. QED
  BY <1>1

\* No step of a host or of its program pairs or refuses a joiner, and a token that
\* such a step takes out is not put back.
LEMMA HostStep ==
  ASSUME RelayInv,
         hosting' \in [Hosts -> {"new", "issued", "listening", "refused", "over"}],
         program' \in [Hosts -> {"opening", "open", "lost", "gone"}],
         ended \subseteq ended', ended' \subseteq Ends,
         ctl' \in [Hosts -> Seq(Lines)],
         \A g \in Hosts : \A i \in DOMAIN ctl'[g] :
           \/ ctl'[g][i] \in {CodeLine(c) : c \in Codes}
           \/ \E k \in DOMAIN ctl[g] : ctl'[g][i] = ctl[g][k],
         \A j \in Joiners : tokens'[j] # None => tokens'[j] = tokens[j],
         UNCHANGED <<join, told, accept, heard>>
  PROVE  ThreadInv'
<1>1. ThreadTypes'
  BY Parts DEF ThreadInv, ThreadTypes, Ends, Lines
<1>2. Attended'
  BY Parts DEF ThreadInv, Attended
<1>3. NoHalfPair'
  BY DEF RelayInv, NoHalfPair
<1>4. Traced'
  <2>1. ASSUME NEW j \in Joiners, NEW c PROVE CodeLine(c) # JoinLine(j)
    BY DEF CodeLine, JoinLine
  <2>2. ASSUME NEW j \in Joiners, NEW g \in Hosts, NEW i \in DOMAIN ctl'[g],
               ctl'[g][i] = JoinLine(j)
        PROVE  join'[j] # "new"
    BY <2>1, <2>2 DEF RelayInv, Traced
  <2>3. QED
    BY <2>2 DEF RelayInv, Traced
<1>5. QED
  BY <1>1, <1>2, <1>3, <1>4 DEF ThreadInv

\* Retire takes tokens out, and puts none in.
LEMMA RetireTokens ==
  ASSUME NEW h, Retire(h)
  PROVE  \A j \in Joiners : tokens'[j] # None => tokens'[j] = tokens[j]
BY DEF Retire

LEMMA HostSteps ==
  ASSUME RelayInv, NEW h \in Hosts, RelayHosting(h) \/ Silence(h)
  PROVE  RelayInv'
<1>1. TableInv /\ ThreadInv /\ ThreadTypes
  BY Parts DEF ThreadInv
<1>2. CASE HostAsks(h)
  <2>1. TableInv'
    BY <1>1, <1>2, IssueCodeKeeps, SameTable DEF HostAsks
  <2>2. ThreadInv'
    <3>1. /\ hosting' \in [Hosts -> {"new", "issued", "listening", "refused", "over"}]
          /\ UNCHANGED <<tokens, join, told, accept, ctl, program, ended, heard>>
      BY <1>1, <1>2 DEF HostAsks, IssueCode, table, programs, ThreadTypes
    <3>2. QED
      BY <1>1, <3>1, HostStep DEF ThreadTypes
  <2>3. QED
    BY <2>1, <2>2, PartsNext
<1>3. CASE SayCode(h)
  <2>1. TableInv'
    BY <1>1, <1>3, RetireKeeps, SameTable DEF SayCode
  <2>2. ThreadInv'
    <3>1. /\ hosting' \in [Hosts -> {"new", "issued", "listening", "refused", "over"}]
          /\ \A j \in Joiners : tokens'[j] # None => tokens'[j] = tokens[j]
          /\ UNCHANGED <<join, told, accept, program, ended, heard>>
      BY <1>1, <1>3, RetireTokens DEF SayCode, table, programs, ThreadTypes
    <3>2. /\ ctl' \in [Hosts -> Seq(Lines)]
          /\ \A g \in Hosts : \A i \in DOMAIN ctl'[g] :
               \/ ctl'[g][i] \in {CodeLine(c) : c \in Codes}
               \/ \E k \in DOMAIN ctl[g] : ctl'[g][i] = ctl[g][k]
      <4>1. CASE ctl' = ctl
        BY <1>1, <4>1 DEF ThreadTypes
      <4>2. CASE \E c \in CodeOf(h) : Write(h, CodeLine(c))
        <5>1. PICK c \in Codes : Write(h, CodeLine(c))
          BY <4>2 DEF CodeOf
        <5>2. CodeLine(c) \in Lines
          BY DEF Lines
        <5>3. QED
          BY <1>1, <5>1, <5>2, WriteLine DEF ThreadTypes
      <4>3. QED
        BY <1>3, <4>1, <4>2 DEF SayCode
    <3>3. QED
      BY <1>1, <3>1, <3>2, HostStep DEF ThreadTypes
  <2>3. QED
    BY <2>1, <2>2, PartsNext
<1>4. CASE HostOver(h)
  <2>1. TableInv'
    BY <1>1, <1>4, RetireKeeps DEF HostOver
  <2>2. ThreadInv'
    <3>1. /\ hosting' \in [Hosts -> {"new", "issued", "listening", "refused", "over"}]
          /\ \A j \in Joiners : tokens'[j] # None => tokens'[j] = tokens[j]
          /\ UNCHANGED <<join, told, accept, ctl, program, ended, heard>>
      BY <1>1, <1>4, RetireTokens DEF HostOver, programs, ThreadTypes
    <3>2. QED
      BY <1>1, <3>1, HostStep DEF ThreadTypes
  <2>3. QED
    BY <2>1, <2>2, PartsNext
<1>5. QED
  BY <1>2, <1>3, <1>4 DEF RelayHosting, ControlEnds, Silence

LEMMA EndsDiffer ==
  /\ \A i, j : Join(i) # Accept(j)
  /\ \A i, j : Join(i) = Join(j) => i = j
  /\ \A i, j : Accept(i) = Accept(j) => i = j
BY DEF Join, Accept

\* A host's program reads its lines, or goes: only what it reads makes it say a token.
LEMMA ProgramSteps ==
  ASSUME RelayInv, NEW h \in Hosts, HostPumps(h) \/ HostGoes(h)
  PROVE  RelayInv'
<1>1. TableInv /\ ThreadInv /\ ThreadTypes /\ ctl \in [Hosts -> Seq(Lines)]
  BY Parts DEF ThreadInv, ThreadTypes
<1>2. UNCHANGED <<table, hosting, join, told, heard>>
  BY DEF HostPumps, HostGoes, HostOpens, HostFails, HostHears, ControlClosed, programs
<1>3. TableInv'
  BY <1>1, <1>2, SameTable
<1>4. /\ UNCHANGED <<hosting, join, told, heard>>
      /\ \A j \in Joiners : tokens'[j] # None => tokens'[j] = tokens[j]
  BY <1>2 DEF table
<1>5. CASE HostOpens(h)
  <2>1. /\ program' \in [Hosts -> {"opening", "open", "lost", "gone"}]
        /\ ctl[h] # <<>> /\ ctl' = [ctl EXCEPT ![h] = Tail(@)]
        /\ UNCHANGED <<accept, ended>>
    BY <1>1, <1>5 DEF HostOpens, ThreadTypes
  <2>2. ThreadInv'
    BY <1>1, <1>4, <2>1, ReadLine, HostStep DEF ThreadTypes
  <2>3. QED
    BY <1>3, <2>2, PartsNext
<1>6. CASE HostFails(h) \/ ControlClosed(h)
  <2>1. /\ program' \in [Hosts -> {"opening", "open", "lost", "gone"}]
        /\ ctl' = [ctl EXCEPT ![h] = <<>>]
        /\ UNCHANGED <<accept, ended>>
    BY <1>1, <1>6 DEF HostFails, ControlClosed, ThreadTypes
  <2>2. ThreadInv'
    BY <1>1, <1>4, <2>1, ForgetLines, HostStep DEF ThreadTypes
  <2>3. QED
    BY <1>3, <2>2, PartsNext
<1>7. CASE HostGoes(h)
  <2>1. /\ program' \in [Hosts -> {"opening", "open", "lost", "gone"}]
        /\ ctl' = [ctl EXCEPT ![h] = <<>>]
        /\ UNCHANGED accept
    BY <1>1, <1>7 DEF HostGoes, ThreadTypes
  <2>2. ended \subseteq ended' /\ ended' \subseteq Ends
    BY <1>1, <1>7 DEF HostGoes, ThreadTypes, Ends
  <2>3. ThreadInv'
    BY <1>1, <1>4, <2>1, <2>2, ForgetLines, HostStep DEF ThreadTypes
  <2>4. QED
    BY <1>3, <2>3, PartsNext
<1>8. CASE HostHears(h)
  <2>1. ctl[h] # <<>> /\ ctl' = [ctl EXCEPT ![h] = Tail(@)]
    BY <1>8 DEF HostHears
  <2>2. /\ ctl' \in [Hosts -> Seq(Lines)] /\ Head(ctl[h]) \in Lines
        /\ \A g \in Hosts : \A i \in DOMAIN ctl'[g] :
             \E k \in DOMAIN ctl[g] : ctl'[g][i] = ctl[g][k]
        /\ \E k \in DOMAIN ctl[h] : Head(ctl[h]) = ctl[h][k]
    BY <1>1, <2>1, ReadLine
  <2>3. PICK a \in Joiners : Head(ctl[h]) = JoinLine(a)
    BY <1>8, <2>2 DEF HostHears, Lines, CodeLine
  <2>4. /\ accept' = [accept EXCEPT ![a] = "asking"]
        /\ UNCHANGED <<program, ended>>
    <3>1. Head(ctl[h]).of = a
      BY <2>3 DEF JoinLine
    <3>2. QED
      BY <1>8, <3>1 DEF HostHears, programs
  <2>5. join[a] # "new"
    BY <2>2, <2>3 DEF RelayInv, Traced
  <2>6. ThreadTypes'
    BY <1>1, <1>4, <2>2, <2>4 DEF ThreadTypes, Ends, Lines
  <2>7. Attended'
    BY <1>1, <1>4 DEF ThreadInv, Attended
  <2>8. NoHalfPair'
    BY <1>1, <1>4, <2>4 DEF ThreadInv, ThreadTypes, NoHalfPair
  <2>9. Traced'
    <3>1. ASSUME NEW j \in Joiners, NEW g \in Hosts, NEW i \in DOMAIN ctl'[g],
                 ctl'[g][i] = JoinLine(j)
          PROVE  join'[j] # "new"
      BY <1>4, <2>2, <3>1 DEF RelayInv, Traced
    <3>2. ASSUME NEW j \in Joiners
          PROVE  /\ join'[j] = "new" => accept'[j] = "none"
                 /\ accept'[j] \in {"claimed", "sent", "paired"} => tokens'[j] = None
                 /\ accept'[j] = "paired" => join'[j] = "paired"
                 /\ Accept(j) \in heard' => join'[j] \in {"paired", "over"}
      BY <1>1, <1>2, <2>4, <2>5 DEF RelayInv, Traced, ThreadTypes, table
    <3>3. QED
      BY <3>1, <3>2 DEF Traced
  <2>10. QED
    BY <1>3, <2>6, <2>7, <2>8, <2>9, PartsNext DEF ThreadInv
<1>9. QED
  BY <1>5, <1>6, <1>7, <1>8 DEF HostPumps

LEMMA EndSteps ==
  ASSUME RelayInv, NEW e \in Ends, EndCloses(e)
  PROVE  RelayInv'
<1>1. TableInv /\ ThreadInv /\ ThreadTypes
  BY Parts DEF ThreadInv
<1>2. /\ UNCHANGED <<table, hosting, join, told, accept, ctl, program, heard>>
      /\ ended' = ended \cup {e}
  BY DEF EndCloses
<1>3. /\ \A j \in Joiners : tokens'[j] # None => tokens'[j] = tokens[j]
      /\ ended \subseteq ended' /\ ended' \subseteq Ends
  BY <1>1, <1>2 DEF table, ThreadTypes
<1>4. ThreadInv'
  BY <1>1, <1>2, <1>3, HostStep DEF ThreadTypes
<1>5. QED
  BY <1>1, <1>2, <1>4, SameTable, PartsNext

\* The steps of one joiner's threads: the table is kept by its lemmas, and of the
\* others' threads nothing changes.
LEMMA OneJoiner ==
  ASSUME RelayInv, NEW j \in Joiners, TableInv',
         UNCHANGED <<hosting, program, ended>>,
         DOMAIN join' = Joiners, DOMAIN accept' = Joiners, DOMAIN told' = Joiners,
         \A k \in Joiners : k # j =>
           /\ join'[k] = join[k] /\ accept'[k] = accept[k] /\ told'[k] = told[k]
           /\ tokens'[k] = tokens[k]
           /\ Accept(k) \in heard' => Accept(k) \in heard,
         join'[j] \in {"enlisted", "waiting", "claiming", "matched", "paired", "refused", "over"},
         accept'[j] \in {"none", "asking", "claimed", "sent", "paired", "refused", "closed"},
         told'[j] \in Hosts \cup {None},
         join' = [k \in Joiners |-> join'[k]], accept' = [k \in Joiners |-> accept'[k]],
         told' = [k \in Joiners |-> told'[k]],
         heard \subseteq heard', heard' \subseteq Ends,
         ctl' = ctl \/ Write(told[j], JoinLine(j)),
         tokens'[j] # None => join'[j] \in {"enlisted", "waiting", "claiming"},
         Accept(j) \in heard' => Join(j) \in heard' \cup ended,
         join'[j] = "refused" => accept'[j] \notin {"sent", "paired"} /\ Accept(j) \notin heard',
         accept'[j] \in {"claimed", "sent", "paired"} => tokens'[j] = None,
         accept'[j] = "paired" => join'[j] = "paired",
         Accept(j) \in heard' => join'[j] \in {"paired", "over"}
  PROVE  RelayInv'
<1>1. ThreadTypes /\ Attended /\ NoHalfPair /\ Traced
  BY Parts DEF ThreadInv
<1>2. /\ ctl' \in [Hosts -> Seq(Lines)]
      /\ \A g \in Hosts : \A i \in DOMAIN ctl'[g] :
           ctl'[g][i] = JoinLine(j) \/ \E k \in DOMAIN ctl[g] : ctl'[g][i] = ctl[g][k]
  <2>1. CASE ctl' = ctl
    BY <1>1, <2>1 DEF ThreadTypes
  <2>2. CASE Write(told[j], JoinLine(j))
    <3>1. JoinLine(j) \in Lines
      BY DEF Lines
    <3>2. QED
      BY <1>1, <2>2, <3>1, WriteLine DEF ThreadTypes
  <2>3. QED
    BY <2>1, <2>2
<1>3. ThreadTypes'
  <2>1. \A k \in Joiners :
          /\ join'[k] \in {"new", "enlisted", "waiting", "claiming", "matched", "paired",
                           "refused", "over"}
          /\ accept'[k] \in {"none", "asking", "claimed", "sent", "paired", "refused", "closed"}
          /\ told'[k] \in Hosts \cup {None}
    BY <1>1 DEF ThreadTypes
  <2>2. QED
    BY <1>1, <1>2, <2>1 DEF ThreadTypes, Ends, Lines
<1>4. Attended'
  BY <1>1 DEF Attended
<1>5. NoHalfPair'
  BY <1>1 DEF NoHalfPair
<1>6. Traced'
  <2>1. ASSUME NEW k \in Joiners, NEW g \in Hosts, NEW i \in DOMAIN ctl'[g],
               ctl'[g][i] = JoinLine(k)
        PROVE  join'[k] # "new"
    <3>1. CASE k = j
      BY <3>1
    <3>2. CASE k # j
      <4>1. JoinLine(k) # JoinLine(j)
        BY <3>2 DEF JoinLine
      <4>2. PICK l \in DOMAIN ctl[g] : ctl[g][l] = JoinLine(k)
        BY <1>2, <2>1, <4>1
      <4>3. QED
        BY <1>1, <3>2, <4>2 DEF Traced
    <3>3. QED
      BY <3>1, <3>2
  <2>2. ASSUME NEW k \in Joiners
        PROVE  /\ join'[k] = "new" => accept'[k] = "none"
               /\ accept'[k] \in {"claimed", "sent", "paired"} => tokens'[k] = None
               /\ accept'[k] = "paired" => join'[k] = "paired"
               /\ Accept(k) \in heard' => join'[k] \in {"paired", "over"}
    BY <1>1 DEF Traced
  <2>3. QED
    BY <2>1, <2>2 DEF Traced
<1>7. QED
  BY <1>3, <1>4, <1>5, <1>6, PartsNext DEF ThreadInv

LEMMA JoinerSteps ==
  ASSUME RelayInv, NEW j \in Joiners, RelayJoining(j)
  PROVE  RelayInv'
<1>1. TableInv /\ ThreadTypes /\ Attended /\ NoHalfPair /\ Traced
  BY Parts DEF ThreadInv
<1> USE <1>1
<1>2. CASE JoinerAsks(j)
  <2>1. TableInv'
    BY <1>2, EnlistKeeps, SameTable DEF JoinerAsks, Attended
  <2>2. /\ join[j] = "new" /\ accept[j] = "none" /\ tokens[j] = None /\ Accept(j) \notin heard
        /\ join'[j] \in {"enlisted", "refused"} /\ told'[j] \in Hosts \cup {None}
        /\ join' = [join EXCEPT ![j] = join'[j]] /\ told' = [told EXCEPT ![j] = told'[j]]
        /\ tokens'[j] # None => join'[j] = "enlisted"
    <3>1. join[j] = "new" /\ accept[j] = "none" /\ tokens[j] = None /\ Accept(j) \notin heard
      BY <1>2 DEF JoinerAsks, Attended, Traced
    <3>2. CASE \E c \in Codes :
                 /\ Enlist(j, c) /\ join' = [join EXCEPT ![j] = "enlisted"]
                 /\ told' = [told EXCEPT ![j] = codes[c]]
      BY <3>1, <3>2 DEF TableInv, ThreadTypes
    <3>3. CASE /\ join' = [join EXCEPT ![j] = "refused"] /\ UNCHANGED <<table, told>>
      BY <3>1, <3>3 DEF table, ThreadTypes
    <3>4. QED
      BY <1>2, <3>2, <3>3 DEF JoinerAsks
  <2>3. \A k \in Joiners : k # j => tokens'[k] = tokens[k]
    BY <1>2 DEF JoinerAsks, Enlist, table, TableInv
  <2>4. UNCHANGED <<hosting, accept, ctl, program, ended, heard>>
    BY <1>2 DEF JoinerAsks, programs
  <2>5. QED
    <3>1. /\ DOMAIN join' = Joiners /\ DOMAIN accept' = Joiners /\ DOMAIN told' = Joiners
          /\ join' = [k \in Joiners |-> join'[k]] /\ accept' = [k \in Joiners |-> accept'[k]]
          /\ told' = [k \in Joiners |-> told'[k]]
          /\ \A k \in Joiners : k # j =>
               /\ join'[k] = join[k] /\ accept'[k] = accept[k] /\ told'[k] = told[k]
               /\ tokens'[k] = tokens[k]
               /\ Accept(k) \in heard' => Accept(k) \in heard
      BY <2>2, <2>3, <2>4 DEF ThreadTypes
    <3>2. /\ accept'[j] = "none" /\ Accept(j) \notin heard' /\ heard' \subseteq Ends
          /\ heard \subseteq heard'
      BY <2>2, <2>4 DEF ThreadTypes
    <3>3. QED
      BY <2>1, <2>2, <2>4, <3>1, <3>2, OneJoiner
<1>3. CASE TellHost(j)
  <2>1. TableInv' /\ tokens' = tokens
    BY <1>3, SameTable DEF TellHost, table
  <2>2. /\ join[j] = "enlisted" /\ join'[j] \in {"waiting", "claiming"}
        /\ join' = [join EXCEPT ![j] = join'[j]]
        /\ ctl' = ctl \/ Write(told[j], JoinLine(j))
        /\ UNCHANGED <<hosting, told, accept, program, ended, heard>>
    BY <1>3 DEF TellHost, programs, ThreadTypes
  <2>3. accept[j] # "paired" /\ Accept(j) \notin heard
    BY <2>2 DEF Traced
  <2>4. QED
    BY <2>1, <2>2, <2>3, OneJoiner DEF ThreadTypes, Traced
<1>4. CASE TakeStream(j)
  <2>1. TableInv' /\ tokens' = tokens
    BY <1>4, SameTable DEF TakeStream, table
  <2>2. /\ join[j] = "waiting" /\ accept[j] = "sent"
        /\ join' = [join EXCEPT ![j] = "matched"] /\ join'[j] = "matched"
        /\ UNCHANGED <<hosting, told, accept, ctl, program, ended, heard>>
    BY <1>4 DEF TakeStream, programs, ThreadTypes
  <2>3. tokens[j] = None /\ Accept(j) \notin heard
    BY <2>2 DEF Traced
  <2>4. QED
    BY <2>1, <2>2, <2>3, OneJoiner DEF ThreadTypes
<1>5. CASE HostLeft(j)
  <2>1. TableInv' /\ tokens' = tokens
    BY <1>5, SameTable DEF HostLeft, table
  <2>2. /\ join[j] = "waiting" /\ tokens[j] = None /\ accept[j] \notin {"claimed", "sent"}
        /\ join' = [join EXCEPT ![j] = "refused"] /\ join'[j] = "refused"
        /\ UNCHANGED <<hosting, told, accept, ctl, program, ended, heard>>
    BY <1>5 DEF HostLeft, programs, ThreadTypes
  <2>3. accept[j] # "paired" /\ Accept(j) \notin heard
    BY <2>2 DEF Traced
  <2>4. QED
    BY <2>1, <2>2, <2>3, OneJoiner DEF ThreadTypes
<1>6. CASE AnswerTimeout(j)
  <2>1. TableInv' /\ tokens' = tokens
    BY <1>6, SameTable DEF AnswerTimeout, table
  <2>2. /\ join[j] = "waiting" /\ accept[j] # "sent"
        /\ join' = [join EXCEPT ![j] = "claiming"] /\ join'[j] = "claiming"
        /\ UNCHANGED <<hosting, told, accept, ctl, program, ended, heard>>
    BY <1>6 DEF AnswerTimeout, programs, ThreadTypes
  <2>3. accept[j] # "paired" /\ Accept(j) \notin heard
    BY <2>2 DEF Traced
  <2>4. QED
    BY <2>1, <2>2, <2>3, OneJoiner DEF ThreadTypes, Traced
<1>7. CASE GiveUp(j)
  <2>1. TableInv'
    BY <1>7, ClaimKeeps DEF GiveUp
  <2>2. /\ join[j] = "claiming" /\ tokens'[j] = None
        /\ join' = [join EXCEPT ![j] = "refused"] /\ join'[j] = "refused"
        /\ accept' = [accept EXCEPT ![j] = accept'[j]]
        /\ accept'[j] = IF accept[j] = "sent" THEN "closed" ELSE accept[j]
        /\ UNCHANGED <<hosting, told, ctl, program, ended, heard>>
    BY <1>7 DEF GiveUp, Claim, programs, ThreadTypes, TableInv
  <2>3. \A k \in Joiners : k # j => tokens'[k] = tokens[k]
    BY <1>7 DEF GiveUp, Claim, TableInv
  <2>4. accept[j] # "paired" /\ Accept(j) \notin heard
    BY <2>2 DEF Traced
  <2>5. QED
    BY <2>1, <2>2, <2>3, <2>4, OneJoiner DEF ThreadTypes
<1>8. CASE Pair(j)
  <2>1. TableInv' /\ tokens' = tokens
    BY <1>8, SameTable DEF Pair, table
  <2>2. /\ join[j] = "matched"
        /\ join' = [join EXCEPT ![j] = join'[j]] /\ accept' = [accept EXCEPT ![j] = accept'[j]]
        /\ \/ join'[j] = "paired" /\ accept'[j] = "paired"
           \/ join'[j] = "over" /\ accept'[j] = "closed"
        /\ UNCHANGED <<hosting, told, ctl, program, ended>>
    BY <1>8 DEF Pair, ThreadTypes
  <2>3. tokens[j] = None /\ Accept(j) \notin heard
    BY <2>2 DEF Traced, Attended
  <2>4. /\ heard \subseteq heard' /\ heard' \subseteq heard \cup {Join(j), Accept(j)}
        /\ Accept(j) \in heard' => Join(j) \in heard' \cup ended
    BY <1>8, <2>3, EndsDiffer DEF Pair
  <2>5. /\ heard' \subseteq Ends
        /\ \A k \in Joiners : k # j => (Accept(k) \in heard' => Accept(k) \in heard)
    BY <2>4, EndsDiffer DEF ThreadTypes, Ends
  <2>6. QED
    BY <2>1, <2>2, <2>3, <2>4, <2>5, OneJoiner DEF ThreadTypes
<1>9. CASE PipeEnds(j)
  <2>1. TableInv' /\ tokens' = tokens
    BY <1>9, SameTable DEF PipeEnds, table
  <2>2. /\ join[j] = "paired"
        /\ join' = [join EXCEPT ![j] = "over"] /\ join'[j] = "over"
        /\ accept' = [accept EXCEPT ![j] = "closed"] /\ accept'[j] = "closed"
        /\ UNCHANGED <<hosting, told, ctl, program, ended, heard>>
    BY <1>9 DEF PipeEnds, programs, ThreadTypes
  <2>3. tokens[j] = None /\ (Accept(j) \in heard => Join(j) \in heard \cup ended)
    BY <2>2 DEF Attended, NoHalfPair
  <2>4. QED
    BY <2>1, <2>2, <2>3, OneJoiner DEF ThreadTypes
<1>10. QED
  BY <1>2, <1>3, <1>4, <1>5, <1>6, <1>7, <1>8, <1>9 DEF RelayJoining

\* The two threads that may take a token out: an ACCEPT that is handed over to a
\* joiner's thread that has given up comes to nothing.
LEMMA AcceptSteps ==
  ASSUME RelayInv, NEW j \in Joiners, RelayAccepting(j)
  PROVE  RelayInv'
<1>1. TableInv /\ ThreadTypes /\ Attended /\ NoHalfPair /\ Traced
  BY Parts DEF ThreadInv
<1> USE <1>1
<1>2. CASE AcceptClaims(j)
  <2>1. TableInv'
    BY <1>2, ClaimKeeps, SameTable DEF AcceptClaims
  <2>2. /\ accept[j] = "asking" /\ tokens'[j] = None
        /\ accept' = [accept EXCEPT ![j] = accept'[j]] /\ accept'[j] \in {"claimed", "refused"}
        /\ UNCHANGED <<hosting, join, told, ctl, program, ended, heard>>
    BY <1>2 DEF AcceptClaims, Claim, table, programs, ThreadTypes, TableInv
  <2>3. \A k \in Joiners : k # j => tokens'[k] = tokens[k]
    BY <1>2 DEF AcceptClaims, Claim, table, TableInv
  <2>4. join[j] # "new"
    BY <2>2 DEF Traced
  <2>5. QED
    BY <2>1, <2>2, <2>3, <2>4, OneJoiner DEF ThreadTypes, NoHalfPair, Traced
<1>3. CASE HandOver(j)
  <2>1. TableInv' /\ tokens' = tokens
    BY <1>3, SameTable DEF HandOver, table
  <2>2. /\ accept[j] = "claimed"
        /\ accept' = [accept EXCEPT ![j] = accept'[j]]
        /\ accept'[j] = IF join[j] = "refused" THEN "closed" ELSE "sent"
        /\ UNCHANGED <<hosting, join, told, ctl, program, ended, heard>>
    BY <1>3 DEF HandOver, programs, ThreadTypes
  <2>3. join[j] # "new" /\ tokens[j] = None
    BY <2>2 DEF Traced
  <2>4. QED
    BY <2>1, <2>2, <2>3, OneJoiner DEF ThreadTypes, NoHalfPair, Traced
<1>4. QED
  BY <1>2, <1>3 DEF RelayAccepting

(***************************************************************************)
(* The theorems.                                                           *)
(***************************************************************************)

LEMMA RelayInvNext == RelayInv /\ [Next]_vars => RelayInv'
<1> SUFFICES ASSUME RelayInv, [Next]_vars PROVE RelayInv'
  OBVIOUS
<1>1. CASE Next
  BY <1>1, HostSteps, ProgramSteps, EndSteps, JoinerSteps, AcceptSteps DEF Next
<1>2. CASE UNCHANGED vars
  <2>1. TableInv'
    BY <1>2, Parts, SameTable DEF vars, table
  <2>2. ThreadInv'
    BY <1>2, Parts DEF vars, ThreadInv, ThreadTypes, Ends, Lines, Attended, NoHalfPair, Traced
  <2>3. QED
    BY <2>1, <2>2, PartsNext
<1>3. QED
  BY <1>1, <1>2

\* The relay's state stays of its type and its inductive invariant holds
\* (server.rs, session.rs).
THEOREM RelaySound == Spec => []RelayInv
<1>1. Init => RelayInv
  BY TableInit, ThreadInit, Parts
<1>2. QED
  BY <1>1, RelayInvNext, PTL DEF Spec

\* A live code's count of waiting joiners is right and within MAX_WAITING, however
\* the joins end (State::enlist, claim, retire_code).
THEOREM WaitingCountsAlways == Spec => []WaitingCounts
<1>1. RelayInv => WaitingCounts
  BY DEF RelayInv, WaitingCounts, Live
<1>2. QED
  BY <1>1, RelaySound, PTL

\* No token outlives its joiner's thread or its code (session::join).
THEOREM TokensAttendedAlways == Spec => []TokensAttended
<1>1. RelayInv => TokensAttended
  BY DEF RelayInv
<1>2. QED
  BY <1>1, RelaySound, PTL

\* No host plays with a joiner that was refused (session::accept, pipe::pair).
THEOREM NoHalfPairAlways == Spec => []NoHalfPair
<1>1. RelayInv => NoHalfPair
  BY DEF RelayInv
<1>2. QED
  BY <1>1, RelaySound, PTL

(***************************************************************************)
(* That the relay keeps the promise of Rendezvous, for any number of       *)
(* hosts, joiners and codes and any bounds: its threads, its table and     *)
(* what the programs are told are one game that opens, fills and closes.   *)
(***************************************************************************)
\* A token is for the code of the host its joiner was enlisted with; a host has one code.
Owned ==
  /\ \A j \in Joiners : tokens[j] # None => told[j] = codes[tokens[j]]
  /\ \A c, d \in Live : codes[c] = codes[d] => c = d
  /\ \A c \in Live : hosting[codes[c]] # "new"

\* Who was told OK has been paired.
Entered == \A j \in Joiners : Join(j) \in heard => join[j] \in {"paired", "over"}

Inv == RelayInv /\ Owned /\ Entered

(***************************************************************************)
(* What has become of a joiner, in the table and by the threads.           *)
(***************************************************************************)
Undecided == {"enlisted", "waiting", "claiming"}

\* A joiner waits while its token is in the table, and then for a host whose game is open.
LEMMA Waits ==
  ASSUME Inv, NEW j \in Joiners, tokens[j] # None
  PROVE  /\ tokens[j] \in Live /\ told[j] = codes[tokens[j]] /\ told[j] \in Hosts
         /\ tokens[j] \in CodeOf(told[j])
         /\ join[j] \in Undecided /\ accept[j] \notin {"claimed", "sent"} /\ Join(j) \notin heard
         /\ JoinerState(j) = "waiting"
<1>1. tokens[j] \in Live /\ told[j] = codes[tokens[j]]
  BY DEF Inv, RelayInv, TokensAttended, Owned
<1>2. told[j] \in Hosts /\ tokens[j] \in CodeOf(told[j])
  BY <1>1 DEF Inv, RelayInv, TypeOK, Live, CodeOf
<1>3. join[j] \in Undecided /\ accept[j] \notin {"claimed", "sent"} /\ Join(j) \notin heard
  BY DEF Inv, RelayInv, TokensAttended, Traced, Entered, Undecided
<1>4. JoinerState(j) = "waiting"
  BY <1>3 DEF JoinerState, Undecided
<1>5. QED
  BY <1>1, <1>2, <1>3, <1>4

\* Only such a joiner is said to wait.
LEMMA WaitsOnly == ASSUME Inv, NEW j \in Joiners, JoinerState(j) = "waiting" PROVE tokens[j] # None
BY DEF JoinerState

\* Nothing else tells one state of a joiner from another.
LEMMA SameState ==
  ASSUME NEW j \in Joiners,
         join'[j] = join[j], tokens'[j] = tokens[j],
         accept'[j] \in {"claimed", "sent"} <=> accept[j] \in {"claimed", "sent"},
         Join(j) \in heard' <=> Join(j) \in heard
  PROVE  JoinerState(j)' = JoinerState(j)
BY DEF JoinerState, Join

\* The other joiners of a step that is about one.
LEMMA OthersSame ==
  ASSUME Inv, NEW j \in Joiners,
         UNCHANGED tokens \/ Claim(j),
         UNCHANGED join \/ \E v : join' = [join EXCEPT ![j] = v],
         UNCHANGED accept \/ \E v : accept' = [accept EXCEPT ![j] = v],
         \A k \in Joiners : k # j => (Join(k) \in heard' <=> Join(k) \in heard)
  PROVE  \A k \in Joiners : k # j => JoinerState(k)' = JoinerState(k)
<1>1. /\ DOMAIN tokens = Joiners /\ DOMAIN join = Joiners /\ DOMAIN accept = Joiners
  BY DEF Inv, RelayInv, TypeOK
<1>2. ASSUME NEW k \in Joiners, k # j PROVE JoinerState(k)' = JoinerState(k)
  <2>1. tokens'[k] = tokens[k]
    BY <1>1, <1>2 DEF Claim
  <2>2. join'[k] = join[k] /\ accept'[k] = accept[k]
    BY <1>1, <1>2
  <2>3. QED
    BY <1>2, <2>1, <2>2, SameState
<1>3. QED
  BY <1>2

(***************************************************************************)
(* The steps that are about one joiner.                                    *)
(***************************************************************************)
LEMMA OpenKept ==
  ASSUME UNCHANGED codes
  PROVE  {h \in Hosts : CodeOf(h) # {}}' = {h \in Hosts : CodeOf(h) # {}}
BY DEF CodeOf

LEMMA OneMoves ==
  ASSUME Inv, UNCHANGED <<codes, told>>, NEW j \in Joiners,
         \A k \in Joiners : k # j => JoinerState(k)' = JoinerState(k),
         \/ JoinerState(j)' = JoinerState(j)
         \/ JoinerState(j) = "waiting" /\ JoinerState(j)' = "answered"
         \/ JoinerState(j) = "answered" /\ JoinerState(j)' = "in"
         \/ JoinerState(j) \in {"new", "waiting", "answered"} /\ JoinerState(j)' = "refused"
  PROVE  [Promise!Next]_(Promise!vars)
<1> DEFINE S == [k \in Joiners |-> JoinerState(k)]
           O == {h \in Hosts : CodeOf(h) # {}}
<1>1. O' = O /\ told' = told
  BY OpenKept
<1>2. S' = [S EXCEPT ![j] = JoinerState(j)']
  OBVIOUS
<1>3. CASE JoinerState(j)' = JoinerState(j)
  <2>1. S' = S
    BY <1>3
  <2>2. QED
    BY <1>1, <2>1 DEF Promise!vars
<1>4. CASE JoinerState(j) = "waiting" /\ JoinerState(j)' = "answered"
  <2>1. told[j] \in O
    BY <1>4, WaitsOnly, Waits
  <2>2. Promise!Answer(j)
    BY <1>1, <1>2, <1>4, <2>1 DEF Promise!Answer
  <2>3. QED
    BY <2>2 DEF Promise!Next
<1>5. CASE JoinerState(j) = "answered" /\ JoinerState(j)' = "in"
  <2>1. Promise!Enter(j)
    BY <1>1, <1>2, <1>5 DEF Promise!Enter
  <2>2. QED
    BY <2>1 DEF Promise!Next
<1>6. CASE JoinerState(j) \in {"new", "waiting", "answered"} /\ JoinerState(j)' = "refused"
  <2>1. Promise!Refuse(j)
    BY <1>1, <1>2, <1>6 DEF Promise!Refuse
  <2>2. QED
    BY <2>1 DEF Promise!Next
<1>7. QED
  BY <1>3, <1>4, <1>5, <1>6

\* The thread of a joiner, once it has asked.
LEMMA JoiningMaps ==
  ASSUME Inv, NEW j \in Joiners, RelayJoining(j), ~JoinerAsks(j)
  PROVE  [Promise!Next]_(Promise!vars)
<1>1. /\ DOMAIN tokens = Joiners /\ DOMAIN join = Joiners /\ DOMAIN accept = Joiners
  BY DEF Inv, RelayInv, TypeOK
<1>2. /\ tokens[j] # None => join[j] \in Undecided
      /\ Join(j) \in heard => join[j] \in {"paired", "over"}
  BY Waits DEF Inv, Entered
<1>3. ASSUME TellHost(j) \/ TakeStream(j) \/ HostLeft(j) \/ AnswerTimeout(j)
      PROVE  [Promise!Next]_(Promise!vars)
  <2>1. UNCHANGED <<codes, waiting, tokens, told, accept, heard>> /\ \E v : join' = [join EXCEPT ![j] = v]
    BY <1>3 DEF TellHost, TakeStream, HostLeft, AnswerTimeout, table, programs
  <2>2. \A k \in Joiners : k # j => JoinerState(k)' = JoinerState(k)
    BY <2>1, OthersSame
  <2>3. CASE TellHost(j)
    <3>1. join[j] \in Undecided /\ join'[j] \in Undecided
      BY <1>1, <2>3 DEF TellHost, Undecided
    <3>2. JoinerState(j)' = JoinerState(j)
      BY <2>1, <3>1 DEF JoinerState, Undecided, Join
    <3>3. QED
      BY <2>1, <2>2, <3>2, OneMoves
  <2>4. CASE TakeStream(j)
    <3>1. tokens[j] = None /\ join[j] = "waiting" /\ accept[j] = "sent" /\ join'[j] = "matched"
      BY <1>1, <2>4, Waits DEF TakeStream
    <3>2. JoinerState(j)' = JoinerState(j)
      BY <2>1, <3>1 DEF JoinerState, Join
    <3>3. QED
      BY <2>1, <2>2, <3>2, OneMoves
  <2>5. CASE HostLeft(j)
    <3>1. /\ tokens[j] = None /\ join[j] = "waiting" /\ accept[j] \notin {"claimed", "sent"}
          /\ join'[j] = "refused"
      BY <1>1, <2>5 DEF HostLeft
    <3>2. JoinerState(j)' = JoinerState(j)
      BY <2>1, <3>1 DEF JoinerState, Join
    <3>3. QED
      BY <2>1, <2>2, <3>2, OneMoves
  <2>6. CASE AnswerTimeout(j)
    <3>1. join[j] = "waiting" /\ join'[j] = "claiming"
      BY <1>1, <2>6 DEF AnswerTimeout
    <3>2. JoinerState(j)' = JoinerState(j)
      BY <2>1, <3>1 DEF JoinerState, Join
    <3>3. QED
      BY <2>1, <2>2, <3>2, OneMoves
  <2>7. QED
    BY <1>3, <2>3, <2>4, <2>5, <2>6
<1>4. CASE GiveUp(j)
  <2>1. /\ UNCHANGED <<codes, told, heard>> /\ Claim(j) /\ join[j] = "claiming" /\ join'[j] = "refused"
        /\ join' = [join EXCEPT ![j] = "refused"] /\ \E v : accept' = [accept EXCEPT ![j] = v]
    BY <1>1, <1>4 DEF GiveUp, Claim, programs
  <2>2. \A k \in Joiners : k # j => JoinerState(k)' = JoinerState(k)
    BY <2>1, OthersSame
  <2>3. JoinerState(j) \in {"waiting", "answered", "refused"} /\ JoinerState(j)' = "refused"
    <3>1. Join(j) \notin heard /\ Join(j) \notin heard' /\ tokens'[j] = None
      BY <1>1, <1>2, <2>1 DEF Claim
    <3>2. QED
      BY <2>1, <3>1 DEF JoinerState, Join
  <2>4. QED
    BY <2>1, <2>2, <2>3, OneMoves
<1>5. CASE Pair(j)
  <2>1. /\ UNCHANGED <<codes, tokens, told>> /\ join[j] = "matched" /\ join'[j] \in {"paired", "over"}
        /\ \E v : join' = [join EXCEPT ![j] = v]
        /\ \E v : accept' = [accept EXCEPT ![j] = v]
    BY <1>1, <1>5 DEF Pair, table
  <2>2. \A k \in Joiners : k # j => (Join(k) \in heard' <=> Join(k) \in heard)
    BY <1>5, EndsDiffer DEF Pair
  <2>3. \A k \in Joiners : k # j => JoinerState(k)' = JoinerState(k)
    BY <2>1, <2>2, OthersSame
  <2>4. tokens[j] = None /\ Join(j) \notin heard
    BY <1>2, <2>1 DEF Undecided
  <2>5. JoinerState(j) = "answered" /\ JoinerState(j)' \in {"in", "refused"}
    BY <2>1, <2>4 DEF JoinerState, Join
  <2>6. QED
    BY <2>1, <2>3, <2>5, OneMoves
<1>6. CASE PipeEnds(j)
  <2>1. /\ UNCHANGED <<codes, tokens, told, heard>> /\ join[j] = "paired" /\ join'[j] = "over"
        /\ \E v : join' = [join EXCEPT ![j] = v]
        /\ \E v : accept' = [accept EXCEPT ![j] = v]
    BY <1>1, <1>6 DEF PipeEnds, table, programs
  <2>2. \A k \in Joiners : k # j => JoinerState(k)' = JoinerState(k)
    BY <2>1, OthersSame
  <2>3. tokens[j] = None
    BY <1>2, <2>1 DEF Undecided
  <2>4. JoinerState(j)' = JoinerState(j)
    BY <2>1, <2>3 DEF JoinerState, Join
  <2>5. QED
    BY <2>1, <2>2, <2>4, OneMoves
<1>7. QED
  BY <1>3, <1>4, <1>5, <1>6 DEF RelayJoining

\* The thread of an ACCEPT answers the joiner whose token it takes out.
LEMMA AcceptingMaps ==
  ASSUME Inv, NEW j \in Joiners, RelayAccepting(j)
  PROVE  [Promise!Next]_(Promise!vars)
<1>1. /\ DOMAIN tokens = Joiners /\ DOMAIN join = Joiners /\ DOMAIN accept = Joiners
  BY DEF Inv, RelayInv, TypeOK
<1>2. /\ UNCHANGED <<codes, join, told, heard>> /\ (UNCHANGED tokens \/ Claim(j))
      /\ \E v : accept' = [accept EXCEPT ![j] = v]
  BY DEF RelayAccepting, AcceptClaims, HandOver, Claim, table, programs
<1>3. \A k \in Joiners : k # j => JoinerState(k)' = JoinerState(k)
  BY <1>2, OthersSame
<1>4. CASE AcceptClaims(j) /\ tokens[j] # None
  <2>1. tokens'[j] = None /\ accept'[j] = "claimed"
    BY <1>1, <1>4 DEF AcceptClaims, Claim
  <2>2. JoinerState(j) = "waiting" /\ join[j] \in Undecided /\ Join(j) \notin heard
    BY <1>4, Waits
  <2>3. JoinerState(j)' = "answered"
    BY <1>2, <2>1, <2>2 DEF JoinerState, Undecided, Join
  <2>4. QED
    BY <1>2, <1>3, <2>2, <2>3, OneMoves
<1>5. CASE AcceptClaims(j) /\ tokens[j] = None
  <2>1. UNCHANGED tokens /\ accept[j] = "asking" /\ accept'[j] = "refused"
    BY <1>1, <1>5 DEF AcceptClaims, table
  <2>2. JoinerState(j)' = JoinerState(j)
    BY <1>2, <2>1, SameState
  <2>3. QED
    BY <1>2, <1>3, <2>2, OneMoves
<1>6. CASE HandOver(j)
  <2>1. /\ UNCHANGED tokens /\ accept[j] = "claimed"
        /\ accept'[j] = IF join[j] = "refused" THEN "closed" ELSE "sent"
    BY <1>1, <1>6 DEF HandOver, table
  <2>2. JoinerState(j)' = JoinerState(j)
    BY <1>2, <2>1 DEF JoinerState, Join
  <2>3. QED
    BY <1>2, <1>3, <2>2, OneMoves
<1>7. QED
  BY <1>4, <1>5, <1>6 DEF RelayAccepting

\* Rendezvous counts as the relay does.
LEMMA CardinalitySame == \A X : Promise!Cardinality(X) = Cardinality(X)
BY DEF Promise!Cardinality, Cardinality

\* A joiner that asks is enlisted with the host whose code it said, if there is room.
LEMMA AskingMaps ==
  ASSUME Inv, NEW j \in Joiners, JoinerAsks(j)
  PROVE  [Promise!Next]_(Promise!vars)
<1>1. /\ DOMAIN tokens = Joiners /\ DOMAIN join = Joiners /\ DOMAIN told = Joiners
      /\ UNCHANGED <<codes, accept, heard>> /\ join[j] = "new"
      /\ \E v : join' = [join EXCEPT ![j] = v]
  BY DEF JoinerAsks, Enlist, table, programs, Inv, RelayInv, TypeOK
<1>2. tokens[j] = None /\ Join(j) \notin heard /\ JoinerState(j) = "new"
  BY <1>1, Waits DEF Undecided, Inv, Entered, JoinerState
<1>3. ASSUME UNCHANGED <<table, told>>, join' = [join EXCEPT ![j] = "refused"]
      PROVE  [Promise!Next]_(Promise!vars)
  <2>1. UNCHANGED tokens /\ join'[j] = "refused"
    BY <1>1, <1>3 DEF table
  <2>2. \A k \in Joiners : k # j => JoinerState(k)' = JoinerState(k)
    BY <1>1, <2>1, OthersSame
  <2>3. JoinerState(j)' = "refused"
    BY <1>1, <1>2, <2>1 DEF JoinerState, Join, Inv, RelayInv, Traced
  <2>4. QED
    BY <1>1, <1>2, <1>3, <2>2, <2>3, OneMoves
<1>4. ASSUME NEW c \in Codes, Enlist(j, c), join' = [join EXCEPT ![j] = "enlisted"],
             told' = [told EXCEPT ![j] = codes[c]]
      PROVE  [Promise!Next]_(Promise!vars)
  <2> DEFINE S == [k \in Joiners |-> JoinerState(k)]
             O == {h \in Hosts : CodeOf(h) # {}}
             h == codes[c]
  <2>1. /\ c \in Live /\ c # None /\ h \in Hosts /\ c \in CodeOf(h) /\ h \in O
    BY <1>4, RelayAssumption DEF Enlist, Live, CodeOf, Inv, RelayInv, TypeOK
  <2>2. tokens' = [tokens EXCEPT ![j] = c] /\ tokens'[j] = c
    BY <1>1, <1>4 DEF Enlist
  <2>3. \A k \in Joiners : k # j => JoinerState(k)' = JoinerState(k)
    BY <1>1, <1>4, <2>2, SameState
  <2>4. JoinerState(j)' = "waiting"
    BY <1>1, <1>4, <2>1, <2>2 DEF JoinerState
  <2>5. S' = [S EXCEPT ![j] = "waiting"] /\ S[j] = "new" /\ O' = O
    BY <1>1, <1>2, <2>3, <2>4, OpenKept
  <2>6. {k \in Joiners : S[k] = "waiting" /\ told[k] = h} = Awaiting(c)
    <3>1. ASSUME NEW k \in Joiners PROVE S[k] = "waiting" /\ told[k] = h <=> tokens[k] = c
      <4>1. CASE tokens[k] = None
        BY <4>1, <2>1, WaitsOnly
      <4>2. CASE tokens[k] # None
        <5>1. S[k] = "waiting" /\ tokens[k] \in Live /\ told[k] = codes[tokens[k]]
          BY <4>2, Waits
        <5>2. QED
          BY <2>1, <5>1 DEF Inv, Owned
      <4>3. QED
        BY <4>1, <4>2
    <3>2. QED
      BY <3>1 DEF Awaiting
  <2>7. Cardinality(Awaiting(c)) < MaxWaiting
    BY <1>4 DEF Enlist, Inv, RelayInv
  <2> HIDE DEF S
  <2>8. Cardinality({k \in Joiners : S[k] = "waiting" /\ told[k] = h}) < MaxWaiting
    BY <2>6, <2>7
  <2>9. Promise!Ask(j)
    BY <1>4, <2>1, <2>5, <2>8, CardinalitySame DEF Promise!Ask, Promise!WaitFor, S
  <2>10. QED
    BY <2>9 DEF Promise!Next
<1>5. QED
  BY <1>3, <1>4 DEF JoinerAsks

(***************************************************************************)
(* The steps of the hosts.                                                 *)
(***************************************************************************)

\* A step that moves no joiner, no token and no code is none of Rendezvous.
LEMMA NoneMoves ==
  ASSUME UNCHANGED <<codes, told>>, \A k \in Joiners : JoinerState(k)' = JoinerState(k)
  PROVE  UNCHANGED Promise!vars
BY OpenKept DEF Promise!vars

\* Retiring a code closes its host's game, and whoever waited for it is refused.
LEMMA RetireMaps ==
  ASSUME Inv, NEW h \in Hosts, Retire(h), UNCHANGED <<join, told, accept, heard>>
  PROVE  [Promise!Next]_(Promise!vars)
<1> DEFINE S == [k \in Joiners |-> JoinerState(k)]
           O == {g \in Hosts : CodeOf(g) # {}}
<1>1. \A g \in Hosts : CodeOf(g)' = IF g = h THEN {} ELSE CodeOf(g)
  BY RelayAssumption DEF Retire, CodeOf
<1>2. O' = O \ {h}
  BY <1>1
<1>3. ASSUME NEW k \in Joiners
      PROVE  JoinerState(k)' = IF S[k] = "waiting" /\ told[k] = h THEN "refused" ELSE S[k]
  <2>1. CASE tokens[k] = None
    <3>1. tokens'[k] = tokens[k]
      BY <2>1 DEF Retire
    <3>2. JoinerState(k)' = JoinerState(k) /\ JoinerState(k) # "waiting"
      BY <2>1, <3>1, SameState, WaitsOnly
    <3>3. QED
      BY <3>2
  <2>2. CASE tokens[k] # None /\ told[k] = h
    <3>1. /\ tokens[k] \in CodeOf(h) /\ JoinerState(k) = "waiting" /\ join[k] \in Undecided
          /\ accept[k] \notin {"claimed", "sent"} /\ Join(k) \notin heard
      BY <2>2, Waits
    <3>2. tokens'[k] = None
      BY <3>1 DEF Retire
    <3>3. JoinerState(k)' = "refused"
      BY <3>1, <3>2 DEF JoinerState, Undecided, Join
    <3>4. QED
      BY <2>2, <3>1, <3>3
  <2>3. CASE tokens[k] # None /\ told[k] # h
    <3>1. tokens[k] \notin CodeOf(h)
      BY <2>3, Waits DEF CodeOf
    <3>2. tokens'[k] = tokens[k]
      BY <3>1 DEF Retire
    <3>3. JoinerState(k)' = JoinerState(k)
      BY <3>2, SameState
    <3>4. QED
      BY <2>3, <3>3
  <2>4. QED
    BY <2>1, <2>2, <2>3
<1>4. S' = [k \in Joiners |-> IF S[k] = "waiting" /\ told[k] = h THEN "refused" ELSE S[k]]
  BY <1>3
<1>5. CASE h \in O
  <2>1. Promise!Close(h)
    BY <1>2, <1>4, <1>5 DEF Promise!Close, Promise!WaitFor
  <2>2. QED
    BY <2>1 DEF Promise!Next
<1>6. CASE h \notin O
  <2>1. \A k \in Joiners : ~(S[k] = "waiting" /\ told[k] = h)
    <3>1. \A k \in Joiners : S[k] = "waiting" => tokens[k] \in CodeOf(told[k])
      BY WaitsOnly, Waits
    <3>2. QED
      BY <1>6, <3>1
  <2>2. S' = S
    BY <1>4, <2>1
  <2>3. O' = O
    BY <1>2, <1>6
  <2>4. QED
    BY <2>2, <2>3 DEF Promise!vars
<1>7. QED
  BY <1>5, <1>6

\* The thread of a control connection opens a game and closes it.
LEMMA HostingMaps ==
  ASSUME Inv, NEW h \in Hosts, RelayHosting(h) \/ Silence(h)
  PROVE  [Promise!Next]_(Promise!vars)
<1>1. UNCHANGED <<join, told, accept, heard>>
  BY DEF RelayHosting, Silence, ControlEnds, HostAsks, SayCode, HostOver, programs
<1>2. ASSUME UNCHANGED table PROVE [Promise!Next]_(Promise!vars)
  <2>1. \A k \in Joiners : JoinerState(k)' = JoinerState(k)
    BY <1>1, <1>2, SameState DEF table
  <2>2. QED
    BY <1>1, <1>2, <2>1, NoneMoves DEF table
<1>3. ASSUME NEW c \in Codes, IssueCode(h, c), hosting[h] = "new" PROVE [Promise!Next]_(Promise!vars)
  <2> DEFINE O == {g \in Hosts : CodeOf(g) # {}}
             S == [k \in Joiners |-> JoinerState(k)]
  <2>1. h \notin O
    <3>1. \A d \in Codes : codes[d] = h => d \in Live
      BY RelayAssumption DEF Live
    <3>2. QED
      BY <1>3, <3>1 DEF CodeOf, Inv, Owned
  <2>2. O' = O \cup {h}
    BY <1>3, RelayAssumption DEF IssueCode, CodeOf, Live, Inv, RelayInv, TypeOK
  <2>3. \A k \in Joiners : JoinerState(k)' = JoinerState(k)
    BY <1>1, <1>3, SameState DEF IssueCode
  <2>4. S' = S
    BY <2>3
  <2>5. Promise!Open(h)
    BY <1>1, <2>1, <2>2, <2>4 DEF Promise!Open
  <2>6. QED
    BY <2>5 DEF Promise!Next
<1>4. CASE Retire(h)
  BY <1>1, <1>4, RetireMaps
<1>5. QED
  BY <1>2, <1>3, <1>4 DEF RelayHosting, Silence, ControlEnds, HostAsks, SayCode, HostOver

\* What the programs do is not seen, but for what they say back.
LEMMA ProgramsMap ==
  ASSUME Inv, NEW h \in Hosts, HostPumps(h) \/ HostGoes(h)
  PROVE  [Promise!Next]_(Promise!vars)
<1>1. UNCHANGED <<codes, waiting, tokens, join, told, heard>>
  BY DEF HostPumps, HostOpens, HostFails, HostHears, ControlClosed, HostGoes, table, programs
<1>2. CASE UNCHANGED accept
  <2>1. \A k \in Joiners : JoinerState(k)' = JoinerState(k)
    BY <1>1, <1>2, SameState
  <2>2. QED
    BY <1>1, <2>1, NoneMoves
<1>3. CASE HostHears(h)
  <2>1. PICK j \in Joiners : accept' = [accept EXCEPT ![j] = "asking"]
    <3>1. ctl[h] # <<>> /\ ctl[h] \in Seq(Lines) /\ Head(ctl[h]).say = "JOIN"
      BY <1>3 DEF HostHears, Inv, RelayInv, TypeOK
    <3>2. Head(ctl[h]) \in Lines
      BY <3>1
    <3>3. Head(ctl[h]).of \in Joiners
      BY <3>1, <3>2 DEF Lines, CodeLine, JoinLine
    <3>4. accept' = [accept EXCEPT ![Head(ctl[h]).of] = "asking"]
      BY <1>3 DEF HostHears
    <3>5. QED
      BY <3>3, <3>4
  <2>2. \A k \in Joiners : k # j => JoinerState(k)' = JoinerState(k)
    BY <1>1, <2>1, OthersSame
  <2>3. accept'[j] = "asking"
    BY <2>1 DEF Inv, RelayInv, TypeOK
  <2>4. JoinerState(j)' = JoinerState(j) \/ (JoinerState(j) = "answered" /\ JoinerState(j)' = "refused")
    BY <1>1, <2>1, <2>3 DEF JoinerState, Join
  <2>5. QED
    BY <1>1, <2>1, <2>2, <2>4, OneMoves
<1>4. QED
  BY <1>2, <1>3 DEF HostPumps, HostOpens, HostFails, ControlClosed, HostGoes

LEMMA EndingMaps ==
  ASSUME Inv, NEW e \in Ends, EndCloses(e)
  PROVE  [Promise!Next]_(Promise!vars)
<1>1. UNCHANGED <<codes, tokens, join, told, accept, heard>>
  BY DEF EndCloses, table
<1>2. \A k \in Joiners : JoinerState(k)' = JoinerState(k)
  BY <1>1, SameState
<1>3. QED
  BY <1>1, <1>2, NoneMoves

(***************************************************************************)
(* What the mapping rests on, through every step.                          *)
(***************************************************************************)
LEMMA OwnedSame ==
  ASSUME Owned, UNCHANGED <<codes, tokens, told, hosting>>
  PROVE  Owned'
BY DEF Owned, Live

LEMMA OwnedRetire ==
  ASSUME Inv, NEW h \in Hosts, Retire(h), hosting' = [hosting EXCEPT ![h] = "over"], UNCHANGED told
  PROVE  Owned'
<1>1. \A c \in Codes : c \in Live' => c \in Live /\ codes'[c] = codes[c]
  BY RelayAssumption DEF Retire, Live, CodeOf, Inv, RelayInv, TypeOK
<1>2. ASSUME NEW j \in Joiners, tokens'[j] # None PROVE told'[j] = codes'[tokens'[j]]
  <2>1. tokens'[j] = tokens[j] /\ tokens[j] # None /\ tokens[j] \notin CodeOf(h)
    BY <1>2 DEF Retire
  <2>2. tokens[j] \in Codes /\ told[j] = codes[tokens[j]]
    BY <2>1, Waits DEF Live
  <2>3. codes'[tokens[j]] = codes[tokens[j]]
    BY <2>1, <2>2 DEF Retire
  <2>4. QED
    BY <2>1, <2>2, <2>3
<1>3. \A c \in Live' : hosting'[codes'[c]] # "new"
  BY <1>1 DEF Live, Inv, Owned, RelayInv, TypeOK
<1>4. \A c, d \in Live' : codes'[c] = codes'[d] => c = d
  BY <1>1 DEF Live, Inv, Owned
<1>5. QED
  BY <1>2, <1>3, <1>4 DEF Owned

LEMMA OwnedStep ==
  ASSUME Inv, Next
  PROVE  Owned'
<1>1. /\ DOMAIN tokens = Joiners /\ DOMAIN told = Joiners /\ DOMAIN hosting = Hosts
      /\ DOMAIN codes = Codes
  BY DEF Inv, RelayInv, TypeOK
<1>2. ASSUME NEW h \in Hosts, RelayHosting(h) \/ Silence(h) PROVE Owned'
  <2>1. ASSUME NEW c \in Codes, IssueCode(h, c), hosting[h] = "new",
               hosting' = [hosting EXCEPT ![h] = "issued"], UNCHANGED told
        PROVE  Owned'
    <3>1. /\ codes'[c] = h /\ c \notin Live /\ UNCHANGED tokens
          /\ \A d \in Codes : d # c => codes'[d] = codes[d]
      BY <1>1, <2>1 DEF IssueCode
    <3>2. \A d \in Live' : d = c \/ (d # c /\ d \in Live /\ codes'[d] = codes[d] /\ codes[d] # h)
      BY <2>1, <3>1 DEF Live, Inv, Owned
    <3>3. \A j \in Joiners : tokens[j] # None => tokens[j] # c /\ tokens[j] \in Codes
      BY <3>1, Waits DEF Live
    <3>4. \A j \in Joiners : tokens'[j] # None => told'[j] = codes'[tokens'[j]]
      BY <2>1, <3>1, <3>3, Waits
    <3>5. \A d \in Live' : hosting'[codes'[d]] # "new"
      BY <1>1, <2>1, <3>1, <3>2 DEF Inv, Owned
    <3>6. \A d, e \in Live' : codes'[d] = codes'[e] => d = e
      BY <3>1, <3>2 DEF Inv, Owned
    <3>7. QED
      BY <3>4, <3>5, <3>6 DEF Owned
  <2>2. ASSUME UNCHANGED <<codes, tokens, told>>,
               hosting' = [hosting EXCEPT ![h] = "refused"] \/ hosting' = [hosting EXCEPT ![h] = "listening"]
        PROVE  Owned'
    <3>1. \A g \in Hosts : hosting[g] # "new" => hosting'[g] # "new"
      BY <1>1, <2>2
    <3>2. \A c \in Live : codes[c] \in Hosts
      BY DEF Live, Inv, RelayInv, TypeOK
    <3>3. QED
      BY <2>2, <3>1, <3>2 DEF Live, Inv, Owned
  <2>3. CASE HostAsks(h)
    BY <2>1, <2>2, <2>3 DEF HostAsks, table
  <2>4. CASE SayCode(h)
    BY <2>2, <2>4, OwnedRetire DEF SayCode, table
  <2>5. CASE HostOver(h)
    BY <2>5, OwnedRetire DEF HostOver
  <2>6. QED
    BY <1>2, <2>3, <2>4, <2>5 DEF RelayHosting, Silence, ControlEnds
<1>3. ASSUME NEW j \in Joiners, Claim(j), UNCHANGED <<told, hosting>> PROVE Owned'
  <2>1. UNCHANGED codes /\ \A k \in Joiners : tokens'[k] = IF k = j THEN None ELSE tokens[k]
    BY <1>1, <1>3 DEF Claim
  <2>2. QED
    BY <1>3, <2>1 DEF Live, Inv, Owned
<1>4. ASSUME NEW j \in Joiners, NEW c \in Codes, Enlist(j, c),
             told' = [told EXCEPT ![j] = codes[c]], UNCHANGED hosting
      PROVE  Owned'
  <2>1. /\ UNCHANGED codes
        /\ \A k \in Joiners : tokens'[k] = IF k = j THEN c ELSE tokens[k]
        /\ \A k \in Joiners : told'[k] = IF k = j THEN codes[c] ELSE told[k]
    BY <1>1, <1>4 DEF Enlist
  <2>2. QED
    BY <1>4, <2>1 DEF Live, Inv, Owned
<1>5. ASSUME NEW h \in Hosts, HostPumps(h) \/ HostGoes(h) PROVE Owned'
  BY <1>5, OwnedSame
     DEF HostPumps, HostOpens, HostFails, HostHears, ControlClosed, HostGoes, table, Inv
<1>6. ASSUME NEW e \in Ends, EndCloses(e) PROVE Owned'
  BY <1>6, OwnedSame DEF EndCloses, table, Inv
<1>7. ASSUME NEW j \in Joiners, RelayJoining(j) PROVE Owned'
  <2>1. CASE JoinerAsks(j)
    BY <1>4, <2>1, OwnedSame DEF JoinerAsks, table, Inv
  <2>2. CASE GiveUp(j)
    BY <1>3, <2>2 DEF GiveUp
  <2>3. CASE TellHost(j) \/ TakeStream(j) \/ HostLeft(j) \/ AnswerTimeout(j) \/ Pair(j) \/ PipeEnds(j)
    BY <2>3, OwnedSame DEF TellHost, TakeStream, HostLeft, AnswerTimeout, Pair, PipeEnds, table, Inv
  <2>4. QED
    BY <1>7, <2>1, <2>2, <2>3 DEF RelayJoining
<1>8. ASSUME NEW j \in Joiners, RelayAccepting(j) PROVE Owned'
  BY <1>3, <1>8, OwnedSame DEF RelayAccepting, AcceptClaims, HandOver, table, Inv
<1>9. QED
  BY <1>2, <1>5, <1>6, <1>7, <1>8 DEF Next

LEMMA EnteredStep ==
  ASSUME Inv, Next
  PROVE  Entered'
<1>1. DOMAIN join = Joiners
  BY DEF Inv, RelayInv, TypeOK
<1>2. CASE UNCHANGED <<join, heard>>
  BY <1>2 DEF Inv, Entered, Join
<1>3. ASSUME NEW j \in Joiners, RelayJoining(j) PROVE Entered'
  <2>1. \A k \in Joiners : k # j => join'[k] = join[k]
    BY <1>1, <1>3 DEF RelayJoining, JoinerAsks, TellHost, TakeStream, HostLeft, AnswerTimeout,
                      GiveUp, Pair, PipeEnds
  <2>2. \A k \in Joiners : k # j /\ Join(k) \in heard' => Join(k) \in heard
    BY <1>3, EndsDiffer
       DEF RelayJoining, JoinerAsks, TellHost, TakeStream, HostLeft, AnswerTimeout,
           GiveUp, Pair, PipeEnds, programs
  <2>3. Join(j) \in heard' => join'[j] \in {"paired", "over"}
    BY <1>1, <1>3 DEF RelayJoining, JoinerAsks, TellHost, TakeStream, HostLeft, AnswerTimeout,
                      GiveUp, Pair, PipeEnds, programs, Inv, Entered
  <2>4. QED
    BY <2>1, <2>2, <2>3 DEF Inv, Entered, Join
<1>4. QED
  BY <1>2, <1>3 DEF Next, RelayHosting, Silence, ControlEnds, HostAsks, SayCode, HostOver, HostPumps,
     HostOpens, HostFails, HostHears, ControlClosed, HostGoes, RelayAccepting, AcceptClaims, HandOver,
     EndCloses, programs

LEMMA InvStart == Init => Inv /\ Promise!Init
<1> SUFFICES ASSUME Init PROVE Inv /\ Promise!Init
  OBVIOUS
<1>1. RelayInv
  BY TableInit, ThreadInit, Parts
<1>2. Owned /\ Entered
  BY DEF Init, Owned, Entered, Live
<1>3. \A j \in Joiners : JoinerState(j) = "new"
  BY DEF Init, JoinerState
<1>4. \A h \in Hosts : CodeOf(h) = {}
  BY RelayAssumption DEF Init, CodeOf
<1>5. Promise!Init
  BY <1>3, <1>4 DEF Init, Promise!Init
<1>6. QED
  BY <1>1, <1>2, <1>5 DEF Inv

LEMMA InvStep == Inv /\ [Next]_vars => Inv'
<1> SUFFICES ASSUME Inv, [Next]_vars PROVE Inv'
  OBVIOUS
<1>1. RelayInv'
  BY RelayInvNext DEF Inv
<1>2. Owned' /\ Entered'
  <2>1. CASE Next
    BY <2>1, OwnedStep, EnteredStep
  <2>2. CASE UNCHANGED vars
    BY <2>2, OwnedSame DEF vars, Inv, Entered, Join
  <2>3. QED
    BY <2>1, <2>2
<1>3. QED
  BY <1>1, <1>2 DEF Inv

LEMMA PromiseStep == Inv /\ [Next]_vars => [Promise!Next]_(Promise!vars)
<1> SUFFICES ASSUME Inv, [Next]_vars PROVE [Promise!Next]_(Promise!vars)
  OBVIOUS
<1>1. CASE Next
  BY <1>1, HostingMaps, ProgramsMap, AskingMaps, JoiningMaps, AcceptingMaps, EndingMaps DEF Next
<1>2. CASE UNCHANGED vars
  <2>1. UNCHANGED <<codes, tokens, join, told, accept, heard>>
    BY <1>2 DEF vars
  <2>2. \A k \in Joiners : JoinerState(k)' = JoinerState(k)
    BY <2>1, SameState
  <2>3. QED
    BY <2>1, <2>2, NoneMoves
<1>3. QED
  BY <1>1, <1>2

\* Whatever threads, programs and time do, joiners wait for open games only, a few at a time,
\* are let in only when the host answered, and are told once (session.rs, server.rs).
THEOREM RelayImplementsRendezvous == Spec => ImplementsRendezvous
<1>1. Spec => []Inv
  BY InvStart, InvStep, PTL DEF Spec
<1>2. QED
  BY <1>1, InvStart, PromiseStep, PTL DEF Spec, ImplementsRendezvous, Promise!Spec
=============================================================================
