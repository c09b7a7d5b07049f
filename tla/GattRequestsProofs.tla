-------------------------- MODULE GattRequestsProofs --------------------------
(***************************************************************************)
(* The search for an attribute and the read by type, for every sorted      *)
(* table, every width of the handles and every request.                    *)
(***************************************************************************)
EXTENDS GattRequests, TLAPS

\* The search is on its way, with what it has excluded: attr_handle can only be between left
\* and right, and neither bound has wrapped.
Narrowed ==
    pc = "search" /\ Within(attr_handle) =>
        /\ left <= tbl_size /\ right <= tbl_size
        /\ \A i \in 0 .. tbl_size - 1 :
              /\ i < left => tbl_handle[i] < attr_handle
              /\ i > right => attr_handle < tbl_handle[i]

SearchInv == GattTypeOK /\ Sorted /\ Narrowed /\ HandleIsFound

\* A read by type looks for a handle the database has.
SoughtOfType ==
    request.opcode = "READ_BY_TYPE" /\ pc \in {"search", "result"} =>
        attr_handle \in of_type /\ request.s_handle <= attr_handle

\* The attributes put in the response are those of the type from the start handle to where the
\* search has come.
UsedBefore ==
    request.opcode = "READ_BY_TYPE" /\ pc = "find" => request.s_handle <= attr_handle

ReadByTypeInv == SoughtOfType /\ UsedBefore /\ ReadByTypeInOrder

\* Who has the buffer at each place of the handlers.
BufferByPlace ==
    /\ pc \in {"find", "finish"} => request.opcode = "READ_BY_TYPE"
    /\ pc = "start" => p_rsp = "none" /\ used = <<>>
    /\ pc \in {"find", "search", "result", "finish"} =>
          p_rsp = IF request.opcode = "READ_BY_TYPE" THEN "held" ELSE "none"
    /\ pc = "idle" => p_rsp # "held" /\ used = <<>>

-----------------------------------------------------------------------------
\* A uint16_t that does not wrap, and one that does.
LEMMA Uint16Fact ==
    ASSUME NEW n \in Int, -1 <= n, n <= UINT16
    PROVE  Uint16(n) \in Uint16Values /\ (n \in Uint16Values => Uint16(n) = n)
BY GattAssumption DEF GattAssumption, Uint16, Uint16Values

LEMMA HandlesAreNumbers == \A h \in AttrHandles : h \in Int /\ 1 <= h /\ h <= UINT16 - 2
BY GattAssumption DEF GattAssumption

\* The place the search looks at is between its bounds.
LEMMA MidBetween ==
    ASSUME NEW l \in Nat, NEW r \in Nat, l <= r
    PROVE  /\ l + (r - l) \div 2 \in Nat
           /\ l <= l + (r - l) \div 2
           /\ l + (r - l) \div 2 <= r
OBVIOUS

-----------------------------------------------------------------------------
\* GattTypeOK: the handlers that begin a search or leave their variables.
LEMMA BeginSearchTypes ==
    ASSUME NEW h \in Uint16Values, GattTypeOK, BeginSearch(h)
    PROVE  /\ pc' = "search" /\ attr_handle' \in Uint16Values
           /\ left' \in Uint16Values /\ right' \in Uint16Values
           /\ index' = INVALID_ATT_TBL_INDEX
BY GattAssumption DEF GattAssumption, GattTypeOK, BeginSearch, Uint16Values

LEMMA ReturnTypes ==
    ASSUME GattTypeOK, Return, UNCHANGED tblVars,
           p_rsp' \in {"none", "held", "sent", "freed"}
    PROVE  GattTypeOK'
BY GattAssumption
   DEF GattAssumption, GattTypeOK, Return, tblVars, Uint16Values, NoRequest

\* Every step keeps the types, one case for each action.  The handle a read by type puts in the
\* response is one of the database's.
LEMMA TypeStep == GattTypeOK /\ SoughtOfType /\ [GattNext]_gattReqVars => GattTypeOK'
<1> SUFFICES ASSUME GattTypeOK, SoughtOfType, [GattNext]_gattReqVars PROVE GattTypeOK'
  OBVIOUS
<1> USE GattAssumption DEF GattAssumption
<1>1. CASE SearchTurn
  <2> DEFINE mid == left + (right - left) \div 2
  <2>1. left \in Nat /\ right \in Nat /\ left <= right /\ right < UINT16
    BY <1>1 DEF SearchTurn, GattTypeOK, Uint16Values
  <2>2. mid \in Nat /\ mid < UINT16
    BY <2>1, MidBetween
  <2>3. PICK handle \in ReadAt(mid) :
          IF handle = attr_handle
          THEN index' = mid /\ pc' = "result" /\ UNCHANGED <<left, right>>
          ELSE Narrow(mid, handle) /\ UNCHANGED <<index, pc>>
    BY <1>1 DEF SearchTurn
  <2> HIDE DEF mid
  <2>4. Uint16(mid + 1) \in Uint16Values /\ Uint16(mid - 1) \in Uint16Values
    BY <2>2, Uint16Fact
  <2>5. left' \in Uint16Values /\ right' \in Uint16Values
    BY <2>3, <2>4 DEF Narrow, GattTypeOK
  <2>6. index' \in Uint16Values \cup {INVALID_ATT_TBL_INDEX} /\ pc' \in {pc, "result"}
    BY <2>2, <2>3 DEF GattTypeOK, Uint16Values
  <2> QED
    BY <1>1, <2>5, <2>6 DEF SearchTurn, GattTypeOK, tblVars, rspVars
<1>2. CASE SearchFails
  BY <1>2 DEF SearchFails, GattTypeOK, tblVars, rspVars
<1>3. CASE StartReadOrWrite
  <2>1. request.s_handle \in Uint16Values
    BY DEF GattTypeOK, Requests, NoRequest, ValidHandles, Uint16Values
  <2> QED
    BY <1>3, <2>1, BeginSearchTypes
       DEF StartReadOrWrite, GattTypeOK, tblVars, rspVars
<1>4. CASE StartReadByType
  <2>1. request.s_handle \in Uint16Values
    BY DEF GattTypeOK, Requests, NoRequest, ValidHandles, Uint16Values
  <2>2. CASE Return /\ UNCHANGED p_rsp
    BY <1>4, <2>2, ReturnTypes DEF StartReadByType, GattTypeOK
  <2>3. CASE pc' = "find" /\ p_rsp' = "held" /\ attr_handle' = request.s_handle
             /\ UNCHANGED <<request, searchVars, used>>
    BY <1>4, <2>1, <2>3 DEF StartReadByType, GattTypeOK, tblVars, searchVars
  <2> QED
    BY <1>4, <2>2, <2>3 DEF StartReadByType
<1>5. CASE FindNext
  <2>1. PICK h \in Candidates : BeginSearch(h)
    BY <1>5 DEF FindNext
  <2>2. h \in Uint16Values
    BY DEF Candidates, GattTypeOK, Uint16Values
  <2> QED
    BY <1>5, <2>1, <2>2, BeginSearchTypes DEF FindNext, GattTypeOK, tblVars, rspVars
<1>6. CASE FindNone
  BY <1>6 DEF FindNone, GattTypeOK, tblVars, searchVars, rspVars
<1>7. CASE AnswerReadOrWrite
  BY <1>7, ReturnTypes DEF AnswerReadOrWrite, GattTypeOK
<1>8. CASE FillResponse
  <2>1. attr_handle \in AttrHandles
    BY <1>8 DEF FillResponse, SoughtOfType, GattTypeOK
  <2>2. attr_handle + 1 \in Int /\ -1 <= attr_handle + 1 /\ attr_handle + 1 <= UINT16
    BY <2>1
  <2>3. Append(used, attr_handle) \in Seq(AttrHandles)
    BY <2>1 DEF GattTypeOK
  <2>4. NextHandle \in Uint16Values
    BY <2>2, Uint16Fact DEF NextHandle
  <2> QED
    BY <1>8, <2>3, <2>4 DEF FillResponse, GattTypeOK, tblVars, searchVars
<1>9. CASE AnswerUnlikely
  BY <1>9, ReturnTypes DEF AnswerUnlikely, GattTypeOK
<1>10. CASE FinishReadByType
  BY <1>10, ReturnTypes DEF FinishReadByType, GattTypeOK
<1>11. CASE ReceiveRequest
  BY <1>11 DEF ReceiveRequest, GattTypeOK, tblVars, searchVars
<1>12. CASE BufferTransmitted
  BY <1>12 DEF BufferTransmitted, GattTypeOK, tblVars, searchVars
<1>13. CASE UNCHANGED gattReqVars
  BY <1>13 DEF GattTypeOK, gattReqVars, tblVars, searchVars, rspVars
<1> QED
  BY <1>1, <1>2, <1>3, <1>4, <1>5, <1>6, <1>7, <1>8, <1>9, <1>10, <1>11, <1>12, <1>13
     DEF GattNext, HandlerStep

-----------------------------------------------------------------------------
\* A search begins with everything between its bounds.
LEMMA BeginNarrowed ==
    ASSUME NEW h, GattTypeOK, BeginSearch(h), UNCHANGED tblVars
    PROVE  Narrowed' /\ HandleIsFound'
BY DEF GattTypeOK, BeginSearch, tblVars, Narrowed, HandleIsFound, Within

\* What the proofs need of the types.
LEMMA SearchNumbers ==
    ASSUME GattTypeOK
    PROVE  /\ left \in Nat /\ right \in Nat /\ tbl_size \in Nat
           /\ tbl_size >= 1 /\ tbl_size < UINT16 /\ UINT16 \in Nat
           /\ attr_handle \in Int
           /\ \A i \in 0 .. tbl_size - 1 : tbl_handle[i] \in Int
<1>1. /\ left \in Nat /\ right \in Nat /\ tbl_size \in Nat
      /\ tbl_size >= 1 /\ tbl_size < UINT16 /\ UINT16 \in Nat
      /\ attr_handle \in Int
  BY GattAssumption DEF GattAssumption, GattTypeOK, Uint16Values
<1>2. ASSUME NEW i \in 0 .. tbl_size - 1 PROVE tbl_handle[i] \in Int
  <2>1. tbl_handle \in [0 .. tbl_size - 1 -> AttrHandles]
    BY DEF GattTypeOK
  <2>2. tbl_handle[i] \in AttrHandles
    BY <2>1
  <2> QED
    BY <2>2, HandlesAreNumbers
<1> QED
  BY <1>1, <1>2

\* A turn of the loop for a handle between the first and the last of the table: the place it
\* looks at is in the table, and neither bound wraps.
LEMMA TurnInTable ==
    ASSUME GattTypeOK, Narrowed, SearchTurn, Within(attr_handle)
    PROVE  \E mid \in 0 .. tbl_size - 1 :
              /\ left <= mid /\ mid <= right
              /\ \/ /\ tbl_handle[mid] = attr_handle
                    /\ index' = mid /\ pc' = "result"
                 \/ /\ tbl_handle[mid] < attr_handle
                    /\ left' = mid + 1 /\ right' = right /\ pc' = "search"
                 \/ /\ attr_handle < tbl_handle[mid]
                    /\ left' = left /\ right' = mid - 1 /\ pc' = "search"
<1> DEFINE mid == left + (right - left) \div 2
<1>1. left <= right /\ right <= tbl_size /\ pc = "search"
  BY DEF SearchTurn, Narrowed
<1>2. mid \in Nat /\ left <= mid /\ mid <= right /\ (mid = right => left = right)
  <2>1. mid \in Nat /\ left <= mid /\ mid <= right
    BY <1>1, SearchNumbers, MidBetween
  <2> QED
    BY <1>1, <2>1, SearchNumbers
<1>3. mid < tbl_size
  <2> HIDE DEF mid
  <2>1. CASE mid = tbl_size
    <3>1. left = tbl_size
      BY <1>1, <1>2, <2>1, SearchNumbers
    <3>2. tbl_handle[tbl_size - 1] < attr_handle
      BY <1>1, <3>1, SearchNumbers DEF Narrowed
    <3> QED
      BY <3>2, SearchNumbers DEF Within
  <2> QED
    BY <1>1, <1>2, <2>1, SearchNumbers
<1>4. IF tbl_handle[mid] = attr_handle
      THEN index' = mid /\ pc' = "result" /\ UNCHANGED <<left, right>>
      ELSE Narrow(mid, tbl_handle[mid]) /\ UNCHANGED <<index, pc>>
  BY <1>3 DEF SearchTurn, ReadAt
<1> HIDE DEF mid
<1>5. CASE tbl_handle[mid] < attr_handle
  <2>1. mid + 1 \in Uint16Values
    BY <1>1, <1>2, <1>3, SearchNumbers DEF Uint16Values
  <2>2. Uint16(mid + 1) = mid + 1
    BY <2>1, SearchNumbers, Uint16Fact DEF Uint16Values
  <2>3. mid \in 0 .. tbl_size - 1 /\ tbl_handle[mid] # attr_handle
    BY <1>2, <1>3, <1>5, SearchNumbers
  <2> QED
    <3>1. left' = mid + 1 /\ right' = right /\ pc' = pc
      BY <1>4, <1>5, <2>2, <2>3 DEF Narrow
    <3> QED
      BY <1>1, <1>2, <1>3, <1>5, <3>1, SearchNumbers
<1>6. CASE attr_handle < tbl_handle[mid]
  <2>1. mid # 0
    BY <1>6, SearchNumbers DEF Within
  <2>2. mid - 1 \in Uint16Values
    BY <1>1, <1>2, <1>3, <2>1, SearchNumbers DEF Uint16Values
  <2>3. Uint16(mid - 1) = mid - 1
    BY <2>2, SearchNumbers, Uint16Fact DEF Uint16Values
  <2> QED
    BY <1>1, <1>2, <1>3, <1>4, <1>6, <2>3, SearchNumbers DEF Narrow
<1>7. CASE tbl_handle[mid] = attr_handle
  BY <1>2, <1>3, <1>4, <1>7, SearchNumbers
<1> QED
  BY <1>2, <1>3, <1>5, <1>6, <1>7, SearchNumbers

\* What such a turn excludes does not hold the handle, and what it finds is the handle.
LEMMA TurnNarrows ==
    GattTypeOK /\ Sorted /\ Narrowed /\ SearchTurn => Narrowed' /\ HandleIsFound'
<1> SUFFICES ASSUME GattTypeOK, Sorted, Narrowed, SearchTurn, Within(attr_handle)
             PROVE  Narrowed' /\ HandleIsFound'
  BY DEF SearchTurn, Narrowed, HandleIsFound, Within, tblVars
<1>1. UNCHANGED <<tbl_handle, tbl_size, attr_handle>> /\ pc = "search"
  BY DEF SearchTurn, tblVars
<1>2. PICK mid \in 0 .. tbl_size - 1 :
        /\ left <= mid /\ mid <= right
        /\ \/ /\ tbl_handle[mid] = attr_handle
              /\ index' = mid /\ pc' = "result"
           \/ /\ tbl_handle[mid] < attr_handle
              /\ left' = mid + 1 /\ right' = right /\ pc' = "search"
           \/ /\ attr_handle < tbl_handle[mid]
              /\ left' = left /\ right' = mid - 1 /\ pc' = "search"
  BY TurnInTable
<1>3. left <= tbl_size /\ right <= tbl_size
  BY <1>1 DEF Narrowed
<1>4. CASE pc' = "result"
  BY <1>1, <1>2, <1>4, SearchNumbers DEF Narrowed, HandleIsFound, Within
<1>5. CASE left' = mid + 1 /\ right' = right /\ pc' = "search"
           /\ tbl_handle[mid] < attr_handle
  <2>1. \A i \in 0 .. tbl_size - 1 : i < mid + 1 => tbl_handle[i] < attr_handle
    BY <1>5, SearchNumbers DEF Sorted
  <2> QED
    BY <1>1, <1>3, <1>5, <2>1, SearchNumbers DEF Narrowed, HandleIsFound, Within
<1>6. CASE left' = left /\ right' = mid - 1 /\ pc' = "search"
           /\ attr_handle < tbl_handle[mid]
  <2>1. \A i \in 0 .. tbl_size - 1 : i > mid - 1 => attr_handle < tbl_handle[i]
    BY <1>6, SearchNumbers DEF Sorted
  <2> QED
    BY <1>1, <1>3, <1>6, <2>1, SearchNumbers DEF Narrowed, HandleIsFound, Within
<1> QED
  BY <1>2, <1>4, <1>5, <1>6

\* Every step keeps what the search has excluded.
LEMMA SearchStep ==
    GattTypeOK /\ Sorted /\ Narrowed /\ HandleIsFound /\ [GattNext]_gattReqVars
        => Sorted' /\ Narrowed' /\ HandleIsFound'
<1> SUFFICES ASSUME GattTypeOK, Sorted, Narrowed, HandleIsFound, [GattNext]_gattReqVars
             PROVE  Sorted' /\ Narrowed' /\ HandleIsFound'
  OBVIOUS
<1>1. UNCHANGED tblVars
  BY DEF GattNext, HandlerStep, SearchTurn, SearchFails, StartReadOrWrite, StartReadByType,
         FindNext, FindNone, AnswerReadOrWrite, FillResponse, AnswerUnlikely,
         FinishReadByType, ReceiveRequest, BufferTransmitted, gattReqVars
<1>2. Sorted'
  BY <1>1 DEF Sorted, tblVars
<1>3. CASE SearchTurn
  BY <1>2, <1>3, TurnNarrows
<1>4. CASE SearchFails
  <2>1. \A i \in 0 .. tbl_size - 1 : i < left \/ i > right
    BY <1>4 DEF SearchFails, GattTypeOK, Uint16Values
  <2>2. Within(attr_handle) => ~ \E i \in 0 .. tbl_size - 1 : tbl_handle[i] = attr_handle
    BY <1>4, <2>1 DEF SearchFails, Narrowed, GattTypeOK, Uint16Values
  <2> QED
    BY <1>2, <1>4, <2>2 DEF SearchFails, Narrowed, HandleIsFound, Within, tblVars
<1>5. CASE StartReadOrWrite
  BY <1>1, <1>2, <1>5, BeginNarrowed DEF StartReadOrWrite
<1>6. CASE FindNext
  BY <1>1, <1>2, <1>6, BeginNarrowed DEF FindNext
<1>7. CASE pc' \notin {"search", "result"}
  BY <1>2, <1>7 DEF Narrowed, HandleIsFound
<1>8. CASE UNCHANGED gattReqVars
  BY <1>2, <1>8 DEF Narrowed, HandleIsFound, Within, gattReqVars, tblVars, searchVars
<1>9. \/ SearchTurn \/ SearchFails \/ StartReadOrWrite \/ FindNext
      \/ pc' \notin {"search", "result"} \/ UNCHANGED gattReqVars
  BY DEF GattNext, HandlerStep, StartReadByType, FindNone, AnswerReadOrWrite, FillResponse,
         AnswerUnlikely, FinishReadByType, ReceiveRequest, BufferTransmitted, Return
<1> QED
  BY <1>3, <1>4, <1>5, <1>6, <1>7, <1>8, <1>9

-----------------------------------------------------------------------------
\* What the response holds, as attr_handle moves on.
UsedSet == {used[i] : i \in DOMAIN used}

Ascending(s) == \A i, j \in DOMAIN s : i < j => s[i] < s[j]

\* FillResponse: the attributes so far and the one found, which is above them all.
LEMMA AppendInOrder ==
    ASSUME NEW S, NEW s \in Seq(S), NEW h \in S, Ascending(s),
           \A i \in DOMAIN s : s[i] < h
    PROVE  /\ {Append(s, h)[i] : i \in DOMAIN Append(s, h)} = {s[i] : i \in DOMAIN s} \cup {h}
           /\ Ascending(Append(s, h))
<1> DEFINE t == Append(s, h)
<1>1. /\ DOMAIN s = 1 .. Len(s) /\ Len(s) \in Nat
      /\ DOMAIN t = 1 .. Len(s) + 1
      /\ \A i \in 1 .. Len(s) : t[i] = s[i]
      /\ t[Len(s) + 1] = h
  OBVIOUS
<1> HIDE DEF t
<1>2. {t[i] : i \in DOMAIN t} = {s[i] : i \in DOMAIN s} \cup {h}
  <2>1. DOMAIN t = DOMAIN s \cup {Len(s) + 1}
    BY <1>1
  <2> QED
    BY <1>1, <2>1
<1>3. Ascending(t)
  <2> SUFFICES ASSUME NEW i \in DOMAIN t, NEW j \in DOMAIN t, i < j PROVE t[i] < t[j]
    BY DEF Ascending
  <2>1. i \in DOMAIN s /\ t[i] = s[i]
    BY <1>1
  <2>2. CASE j \in DOMAIN s
    BY <1>1, <2>1, <2>2 DEF Ascending
  <2>3. CASE j = Len(s) + 1
    BY <1>1, <2>1, <2>3
  <2> QED
    BY <1>1, <2>2, <2>3
<1> QED
  BY <1>2, <1>3 DEF t

\* Every step keeps who has the buffer.
LEMMA BufferStep == BufferByPlace /\ [GattNext]_gattReqVars => BufferByPlace'
<1> SUFFICES ASSUME BufferByPlace, [GattNext]_gattReqVars PROVE BufferByPlace'
  OBVIOUS
<1> USE DEF BufferByPlace
<1>1. CASE SearchTurn
  BY <1>1 DEF SearchTurn, rspVars
<1>2. CASE SearchFails
  BY <1>2 DEF SearchFails, rspVars
<1>3. CASE StartReadOrWrite
  BY <1>3 DEF StartReadOrWrite, BeginSearch, rspVars
<1>4. CASE StartReadByType
  BY <1>4 DEF StartReadByType, Return
<1>5. CASE FindNext
  BY <1>5 DEF FindNext, BeginSearch, rspVars
<1>6. CASE FindNone
  BY <1>6 DEF FindNone, rspVars
<1>7. CASE AnswerReadOrWrite
  BY <1>7 DEF AnswerReadOrWrite, Return
<1>8. CASE FillResponse
  BY <1>8 DEF FillResponse
<1>9. CASE AnswerUnlikely
  BY <1>9 DEF AnswerUnlikely, Return
<1>10. CASE FinishReadByType
  <2>1. p_rsp' \in {"freed", "sent"} /\ pc' = "idle" /\ used' = <<>>
    BY <1>10 DEF FinishReadByType, Return
  <2> QED
    BY <2>1
<1>11. CASE ReceiveRequest
  BY <1>11 DEF ReceiveRequest
<1>12. CASE BufferTransmitted
  BY <1>12 DEF BufferTransmitted
<1>13. CASE UNCHANGED gattReqVars
  BY <1>13 DEF gattReqVars, rspVars
<1> QED
  BY <1>1, <1>2, <1>3, <1>4, <1>5, <1>6, <1>7, <1>8, <1>9, <1>10, <1>11, <1>12, <1>13
     DEF GattNext, HandlerStep

-----------------------------------------------------------------------------
\* Every step keeps the response in order, and what the loop needs for it.
LEMMA ReadByTypeStep ==
    GattTypeOK /\ BufferByPlace /\ ReadByTypeInv /\ [GattNext]_gattReqVars => ReadByTypeInv'
<1> SUFFICES ASSUME GattTypeOK, BufferByPlace, ReadByTypeInv, [GattNext]_gattReqVars
             PROVE  ReadByTypeInv'
  OBVIOUS
<1> USE DEF ReadByTypeInv
<1>1. CASE SearchTurn \/ SearchFails
  <2>1. /\ UNCHANGED <<of_type, request, attr_handle, used>>
        /\ pc = "search" /\ pc' \in {"search", "result"}
    BY <1>1 DEF SearchTurn, SearchFails, tblVars, rspVars
  <2> QED
    BY <2>1 DEF SoughtOfType, UsedBefore, ReadByTypeInOrder
<1>2. CASE StartReadOrWrite
  BY <1>2 DEF StartReadOrWrite, BeginSearch, SoughtOfType, UsedBefore, ReadByTypeInOrder
<1>3. CASE StartReadByType
  <2>1. CASE Return
    BY <2>1 DEF Return, SoughtOfType, UsedBefore, ReadByTypeInOrder
  <2>2. CASE /\ pc' = "find" /\ attr_handle' = request.s_handle
             /\ UNCHANGED <<request, used, of_type>>
    <3>1. used' = <<>>
      BY <1>3, <2>2 DEF StartReadByType, BufferByPlace
    <3>2. request.s_handle \in Int /\ of_type \subseteq AttrHandles
      BY DEF GattTypeOK, Requests, NoRequest, ValidHandles
    <3>3. {h \in of_type : request.s_handle <= h /\ h < request.s_handle} = {}
      BY <3>2, HandlesAreNumbers
    <3>4. ReadByTypeInOrder'
      BY <2>2, <3>1, <3>3 DEF ReadByTypeInOrder
    <3> QED
      BY <2>2, <3>2, <3>4 DEF SoughtOfType, UsedBefore
  <2> QED
    BY <1>3, <2>1, <2>2 DEF StartReadByType, tblVars
<1>4. CASE FindNext
  <2>1. PICK h \in Candidates :
            (\A other \in Candidates : h <= other) /\ BeginSearch(h)
    BY <1>4 DEF FindNext
  <2>2. /\ UNCHANGED <<of_type, request, used>>
        /\ pc = "find" /\ pc' = "search" /\ attr_handle' = h
        /\ request.opcode = "READ_BY_TYPE"
    BY <1>4, <2>1 DEF FindNext, BeginSearch, tblVars, rspVars, BufferByPlace
  <2>3. /\ h \in of_type /\ attr_handle <= h /\ h <= request.e_handle
        /\ of_type \subseteq AttrHandles
        /\ attr_handle \in Int /\ request.s_handle \in Int /\ request.e_handle \in Int
    BY DEF Candidates, GattTypeOK, Uint16Values, Requests, NoRequest, ValidHandles
  <2>4. request.s_handle <= attr_handle
    BY <2>2 DEF UsedBefore
  <2>5. \A x \in of_type : request.s_handle <= x /\ x < h
            <=> request.s_handle <= x /\ x < attr_handle
    <3> SUFFICES ASSUME NEW x \in of_type PROVE
            request.s_handle <= x /\ x < h <=> request.s_handle <= x /\ x < attr_handle
      OBVIOUS
    <3>1. x \in Int /\ h \in Int
      BY <2>3, HandlesAreNumbers
    <3>2. ~ (attr_handle <= x /\ x < h)
      <4>1. attr_handle <= x /\ x < h => x \in Candidates
        BY <2>3, <3>1 DEF Candidates
      <4> QED
        BY <2>1, <3>1, <4>1
    <3> QED
      BY <2>3, <3>1, <3>2
  <2>6. ReadByTypeInOrder'
    BY <2>2, <2>5 DEF ReadByTypeInOrder
  <2>7. request.s_handle <= h
    BY <2>3, <2>4, HandlesAreNumbers
  <2> QED
    BY <2>2, <2>3, <2>6, <2>7 DEF SoughtOfType, UsedBefore
<1>5. CASE FindNone
  BY <1>5 DEF FindNone, SoughtOfType, UsedBefore, ReadByTypeInOrder
<1>6. CASE FillResponse
  <2>1. CASE pc' = "finish"
    BY <2>1 DEF SoughtOfType, UsedBefore, ReadByTypeInOrder
  <2>2. CASE used' = Append(used, attr_handle) /\ attr_handle' = NextHandle /\ pc' = "find"
    <3>1. /\ UNCHANGED <<of_type, request>> /\ pc = "result"
          /\ request.opcode = "READ_BY_TYPE"
      BY <1>6 DEF FillResponse, tblVars
    <3>2. /\ attr_handle \in of_type /\ of_type \subseteq AttrHandles
          /\ request.s_handle <= attr_handle /\ request.s_handle \in Int
      BY <3>1 DEF SoughtOfType, GattTypeOK, Requests, NoRequest, ValidHandles
    <3>3. attr_handle \in Int /\ 1 <= attr_handle /\ attr_handle <= UINT16 - 2
          /\ UINT16 \in Nat
      BY <3>2, HandlesAreNumbers, GattAssumption DEF GattAssumption
    <3>4. attr_handle' = attr_handle + 1
      BY <2>2, <3>3 DEF NextHandle, Uint16
    <3>5. used \in Seq(AttrHandles) /\ attr_handle \in AttrHandles
      BY <3>2 DEF GattTypeOK
    <3>6. /\ UsedSet = {h \in of_type : request.s_handle <= h /\ h < attr_handle}
          /\ Ascending(used)
      BY <3>1 DEF ReadByTypeInOrder, UsedSet, Ascending
    <3>7. \A i \in DOMAIN used : used[i] < attr_handle
      <4> SUFFICES ASSUME NEW i \in DOMAIN used PROVE used[i] < attr_handle
        OBVIOUS
      <4>1. used[i] \in UsedSet
        BY DEF UsedSet
      <4> QED
        BY <3>6, <4>1
    <3>8. UsedSet' = UsedSet \cup {attr_handle} /\ Ascending(used')
      BY <2>2, <3>5, <3>6, <3>7, AppendInOrder DEF UsedSet
    <3>9. UsedSet' = {h \in of_type : request.s_handle <= h /\ h < attr_handle + 1}
      <4>1. \A h \in of_type : h \in Int
        BY <3>2, HandlesAreNumbers
      <4>2. \A h \in of_type : h < attr_handle + 1 <=> h < attr_handle \/ h = attr_handle
        BY <3>3, <4>1
      <4> QED
        BY <3>2, <3>6, <3>8, <4>2
    <3>10. ReadByTypeInOrder'
      BY <3>1, <3>4, <3>8, <3>9 DEF ReadByTypeInOrder, UsedSet, Ascending
    <3>11. request.s_handle <= attr_handle + 1
      BY <3>2, <3>3
    <3> QED
      BY <2>2, <3>1, <3>4, <3>10, <3>11 DEF SoughtOfType, UsedBefore
  <2> QED
    BY <1>6, <2>1, <2>2 DEF FillResponse
<1>7. CASE AnswerReadOrWrite \/ AnswerUnlikely \/ FinishReadByType
  BY <1>7 DEF AnswerReadOrWrite, AnswerUnlikely, FinishReadByType, Return, SoughtOfType,
              UsedBefore, ReadByTypeInOrder
<1>8. CASE ReceiveRequest
  BY <1>8 DEF ReceiveRequest, SoughtOfType, UsedBefore, ReadByTypeInOrder
<1>9. CASE BufferTransmitted
  BY <1>9 DEF BufferTransmitted, SoughtOfType, UsedBefore, ReadByTypeInOrder
<1>10. CASE UNCHANGED gattReqVars
  BY <1>10 DEF gattReqVars, tblVars, rspVars, SoughtOfType, UsedBefore, ReadByTypeInOrder
<1> QED
  BY <1>1, <1>2, <1>3, <1>4, <1>5, <1>6, <1>7, <1>8, <1>9, <1>10 DEF GattNext, HandlerStep

-----------------------------------------------------------------------------
GattInv == SearchInv /\ ReadByTypeInv /\ BufferByPlace

LEMMA GattInvariant == GattSpec => []GattInv
<1>1. GattInit => GattInv
  <2> SUFFICES ASSUME GattInit PROVE GattInv
    OBVIOUS
  <2>1. GattTypeOK
    <3>1. used \in Seq(AttrHandles)
      BY DEF GattInit
    <3>2. 0 \in Uint16Values
      BY GattAssumption DEF GattAssumption, GattInit, Uint16Values
    <3> QED
      BY <3>1, <3>2 DEF GattInit, GattTypeOK
  <2> QED
    BY <2>1 DEF GattInit, GattInv, SearchInv, Narrowed, HandleIsFound, ReadByTypeInv,
                SoughtOfType, UsedBefore, ReadByTypeInOrder, BufferByPlace, NoRequest
<1>2. GattInv /\ [GattNext]_gattReqVars => GattInv'
  BY TypeStep, SearchStep, ReadByTypeStep, BufferStep DEF GattInv, SearchInv, ReadByTypeInv
<1> QED
  BY <1>1, <1>2, PTL DEF GattSpec

\* app_get_attr_index_by_handle(): in every sorted table a handle between the first and the last
\* is found at its own index when it is there, and not found when it is not.
THEOREM SearchCorrect == GattSpec => []HandleIsFound
<1>1. GattInv => HandleIsFound
  BY DEF GattInv, SearchInv
<1> QED
  BY <1>1, GattInvariant, PTL

\* app_gatt_read_by_type_handler(): the attributes of the type from the start handle on, each
\* once and in order.
THEOREM ReadByTypeCorrect == GattSpec => []ReadByTypeInOrder
<1>1. GattInv => ReadByTypeInOrder
  BY DEF GattInv, ReadByTypeInv
<1> QED
  BY <1>1, GattInvariant, PTL

\* app_gatt_read_by_type_handler(): no way out of it keeps the buffer.
THEOREM BufferCorrect == GattSpec => []BufferHasOneOwner
<1>1. GattInv => BufferHasOneOwner
  BY DEF GattInv, SearchInv, GattTypeOK, BufferByPlace, BufferHasOneOwner
<1> QED
  BY <1>1, GattInvariant, PTL

\* Every variable of the handlers keeps to its type, the uint16_t to their width.
THEOREM GattTypeCorrect == GattSpec => []GattTypeOK
<1>1. GattInv => GattTypeOK
  BY DEF GattInv, SearchInv
<1> QED
  BY <1>1, GattInvariant, PTL

\* The loop of app_get_attr_index_by_handle() cannot go round for ever: for a handle between the
\* first and the last, a turn that does not find it leaves fewer places to look at.
TurnShortens ==
    SearchTurn /\ Within(attr_handle) => pc' = "result" \/ right' - left' < right - left

THEOREM SearchShortens == GattSpec => [][TurnShortens]_gattReqVars
<1>1. GattInv => TurnShortens
  <2> SUFFICES ASSUME GattInv, SearchTurn, Within(attr_handle), pc' # "result"
               PROVE  right' - left' < right - left
    BY DEF TurnShortens
  <2>1. GattTypeOK /\ Narrowed
    BY DEF GattInv, SearchInv
  <2>2. PICK mid \in 0 .. tbl_size - 1 :
          /\ left <= mid /\ mid <= right
          /\ \/ left' = mid + 1 /\ right' = right
             \/ left' = left /\ right' = mid - 1
    BY <2>1, TurnInTable
  <2> QED
    BY <2>1, <2>2, SearchNumbers
<1> QED
  BY <1>1, GattInvariant, PTL
=============================================================================
