---------------------------- MODULE GattRequests ----------------------------
(***************************************************************************)
(* app_bt_gatt_handler.c: how a read, a read by type or a write finds its  *)
(* attribute, app_get_attr_index_by_handle(), and what the handlers make   *)
(* of the result.  The stack hands over one request at a time and gives    *)
(* the next one when it has transmitted the answer to the one before.      *)
(*                                                                         *)
(* The search compares handles in memory: past the end of the table it     *)
(* finds any value.  The generated table and the stack are external.       *)
(*                                                                         *)
(* pc:  idle    no request                                                 *)
(*      start   a request has come                                         *)
(*      find    the loop of app_gatt_read_by_type_handler()                *)
(*      search  the loop of app_get_attr_index_by_handle()                 *)
(*      result  the search has returned index                              *)
(*      finish  the end of app_gatt_read_by_type_handler()                 *)
(***************************************************************************)
EXTENDS Integers, Sequences

CONSTANTS
    UINT16,                 \* 2^16 in the code: a uint16_t is below it
    AttrHandles,            \* the handles the generated table may hold
    MaxAttributes           \* bound: the size of the table

ASSUME GattAssumption ==
    /\ UINT16 \in Nat
    /\ AttrHandles \subseteq 1 .. UINT16 - 2
    /\ MaxAttributes \in Nat /\ MaxAttributes < UINT16

VARIABLES
    tbl_handle,             \* app_gatt_db_ext_attr_tbl[i].handle
    tbl_size,               \* app_gatt_db_ext_attr_tbl_size
    of_type,                \* handles of the database with the type a request asks for
    pc,
    request,                \* opcode, first and last handle
    attr_handle,            \* the handle looked for, or where to look next
    left, right, index,     \* app_get_attr_index_by_handle()
    used,                   \* the attributes in the response to a read by type
    p_rsp                   \* its buffer: "none", "held", "sent" or "freed"

tblVars    == <<tbl_handle, tbl_size, of_type>>
searchVars == <<left, right, index>>
rspVars    == <<used, p_rsp>>

gattReqVars == <<tblVars, pc, request, attr_handle, searchVars, rspVars>>

Uint16Values == 0 .. UINT16 - 1
INVALID_ATT_TBL_INDEX == -1

\* (mutant) The variables are wider than the code's.
Uint16AsInt(n) == n

\* Assignment of n, at most one out of range, to a uint16_t
Uint16(n) == IF n < 0 THEN n + UINT16 ELSE IF n >= UINT16 THEN n - UINT16 ELSE n

\* Handle 0 is no handle.  A read and a write name one.
ValidHandles == 1 .. UINT16 - 1

Requests ==
    [opcode : {"READ", "WRITE"}, s_handle : ValidHandles, e_handle : {0}]
    \cup [opcode : {"READ_BY_TYPE"}, s_handle : ValidHandles, e_handle : ValidHandles]

NoRequest == [opcode |-> "READ", s_handle |-> 0, e_handle |-> 0]

\* A handler returns: its variables are gone.
Return ==
    /\ pc' = "idle"
    /\ request' = NoRequest
    /\ attr_handle' = 0
    /\ left' = 0 /\ right' = 0 /\ index' = INVALID_ATT_TBL_INDEX
    /\ used' = <<>>

-----------------------------------------------------------------------------
(* app_get_attr_index_by_handle() *)

\* (mutant) The table's last entry is not looked at.
BeginSearchShort(h) ==
    /\ pc' = "search"
    /\ attr_handle' = h
    /\ left' = 0
    /\ right' = Uint16(tbl_size - 2)
    /\ index' = INVALID_ATT_TBL_INDEX

\* Its start: right is one past the last index.
BeginSearch(h) ==
    /\ pc' = "search"
    /\ attr_handle' = h
    /\ left' = 0
    /\ right' = tbl_size
    /\ index' = INVALID_ATT_TBL_INDEX

\* What is read at mid
ReadAt(mid) == IF mid < tbl_size THEN {tbl_handle[mid]} ELSE Uint16Values

\* (mutant) The upper half is searched again from mid.
NarrowFromMid(mid, handle) ==
    IF handle < attr_handle THEN left' = mid /\ UNCHANGED right
    ELSE right' = Uint16(mid - 1) /\ UNCHANGED left

\* The half in which attr_handle is
Narrow(mid, handle) ==
    IF handle < attr_handle THEN left' = Uint16(mid + 1) /\ UNCHANGED right
    ELSE right' = Uint16(mid - 1) /\ UNCHANGED left

\* One turn of the loop
SearchTurn ==
    /\ pc = "search"
    /\ left <= right
    /\ LET mid == left + (right - left) \div 2 IN
       \E handle \in ReadAt(mid) :
          IF handle = attr_handle
          THEN index' = mid /\ pc' = "result" /\ UNCHANGED <<left, right>>
          ELSE Narrow(mid, handle) /\ UNCHANGED <<index, pc>>
    /\ UNCHANGED <<tblVars, request, attr_handle, rspVars>>

SearchFails ==
    /\ pc = "search"
    /\ left > right
    /\ index' = INVALID_ATT_TBL_INDEX
    /\ pc' = "result"
    /\ UNCHANGED <<tblVars, request, attr_handle, left, right, rspVars>>

-----------------------------------------------------------------------------
(* The handlers *)

\* app_bt_gatt_event_callback(), GATT_ATTRIBUTE_REQUEST_EVT
ReceiveRequest ==
    /\ pc = "idle"
    /\ p_rsp # "sent"
    /\ request' \in Requests
    /\ pc' = "start"
    /\ p_rsp' = "none"
    /\ UNCHANGED <<tblVars, attr_handle, searchVars, used>>

\* app_gatt_attr_read_handler() and app_get_attribute(), for app_gatt_attr_write_handler()
StartReadOrWrite ==
    /\ pc = "start"
    /\ request.opcode \in {"READ", "WRITE"}
    /\ BeginSearch(request.s_handle)
    /\ UNCHANGED <<tblVars, request, rspVars>>

\* app_gatt_read_by_type_handler(): without memory the request is refused.
StartReadByType ==
    /\ pc = "start"
    /\ request.opcode = "READ_BY_TYPE"
    /\ \/ /\ p_rsp' = "held"
          /\ pc' = "find"
          /\ attr_handle' = request.s_handle
          /\ UNCHANGED <<request, searchVars, used>>
       \/ Return /\ UNCHANGED p_rsp
    /\ UNCHANGED tblVars

\* wiced_bt_gatt_find_handle_by_type(): the first one, 0 when there is none
Candidates == {h \in of_type : attr_handle <= h /\ h <= request.e_handle}

FindNext ==
    /\ pc = "find"
    /\ \E h \in Candidates :
          /\ \A other \in Candidates : h <= other
          /\ BeginSearch(h)
    /\ UNCHANGED <<tblVars, request, rspVars>>

FindNone ==
    /\ pc = "find"
    /\ Candidates = {}
    /\ pc' = "finish"
    /\ UNCHANGED <<tblVars, request, attr_handle, searchVars, rspVars>>

\* The answer to a read is the attribute or an error (no attribute, a bad offset), to a write a
\* response or an error (no attribute, no case for it).
AnswerReadOrWrite ==
    /\ pc = "result"
    /\ request.opcode \in {"READ", "WRITE"}
    /\ Return
    /\ UNCHANGED <<tblVars, p_rsp>>

\* (mutant) The next search starts with the handle found.
NextHandleSame == attr_handle

\* attr_handle++
NextHandle == Uint16(attr_handle + 1)

\* An attribute of the type is put in the response.  It does not fit when the response is full
\* or when its length is not that of the first.
FillResponse ==
    /\ pc = "result"
    /\ request.opcode = "READ_BY_TYPE"
    /\ index # INVALID_ATT_TBL_INDEX
    /\ \/ /\ used' = Append(used, attr_handle)
          /\ attr_handle' = NextHandle
          /\ pc' = "find"
       \/ pc' = "finish" /\ UNCHANGED <<used, attr_handle>>
    /\ UNCHANGED <<tblVars, request, searchVars, p_rsp>>

\* (mutant) The buffer is kept.
AnswerUnlikelyKeepsBuffer ==
    /\ pc = "result"
    /\ request.opcode = "READ_BY_TYPE"
    /\ index = INVALID_ATT_TBL_INDEX
    /\ Return
    /\ UNCHANGED <<tblVars, p_rsp>>

\* The database has an attribute of the type that the table does not have.
AnswerUnlikely ==
    /\ pc = "result"
    /\ request.opcode = "READ_BY_TYPE"
    /\ index = INVALID_ATT_TBL_INDEX
    /\ p_rsp' = "freed"
    /\ Return
    /\ UNCHANGED tblVars

\* An error when there is nothing to send, or the response, whose buffer the stack gives back.
FinishReadByType ==
    /\ pc = "finish"
    /\ p_rsp' = IF used = <<>> THEN "freed" ELSE "sent"
    /\ Return
    /\ UNCHANGED tblVars

\* GATT_APP_BUFFER_TRANSMITTED_EVT
BufferTransmitted ==
    /\ pc = "idle"
    /\ p_rsp = "sent"
    /\ p_rsp' = "freed"
    /\ UNCHANGED <<tblVars, pc, request, attr_handle, searchVars, used>>

HandlerStep ==
    \/ SearchTurn
    \/ SearchFails
    \/ StartReadOrWrite
    \/ StartReadByType
    \/ FindNext
    \/ FindNone
    \/ AnswerReadOrWrite
    \/ FillResponse
    \/ AnswerUnlikely
    \/ FinishReadByType

\* "Please ensure that GATT DB is sorted by attribute handle."
Sorted == \A i, j \in 0 .. tbl_size - 1 : i < j => tbl_handle[i] < tbl_handle[j]

GattInit ==
    /\ tbl_size \in 1 .. MaxAttributes
    /\ tbl_handle \in [0 .. tbl_size - 1 -> AttrHandles]
    /\ Sorted
    /\ of_type \in SUBSET AttrHandles
    /\ pc = "idle"
    /\ request = NoRequest
    /\ attr_handle = 0
    /\ left = 0 /\ right = 0 /\ index = INVALID_ATT_TBL_INDEX
    /\ used = <<>>
    /\ p_rsp = "none"

GattNext == HandlerStep \/ ReceiveRequest \/ BufferTransmitted

GattSpec == GattInit /\ [][GattNext]_gattReqVars

\* The stack's thread runs.  Nobody need send a request.
GattFairSpec == GattSpec /\ WF_gattReqVars(HandlerStep)

-----------------------------------------------------------------------------
\* The type of every variable.
GattTypeOK ==
    /\ tbl_size \in 1 .. MaxAttributes
    /\ tbl_handle \in [0 .. tbl_size - 1 -> AttrHandles]
    /\ of_type \subseteq AttrHandles
    /\ pc \in {"idle", "start", "find", "search", "result", "finish"}
    /\ request \in Requests \cup {NoRequest}
    /\ attr_handle \in Uint16Values
    /\ left \in Uint16Values /\ right \in Uint16Values
    /\ index \in Uint16Values \cup {INVALID_ATT_TBL_INDEX}
    /\ used \in Seq(AttrHandles)
    /\ p_rsp \in {"none", "held", "sent", "freed"}

\* A handle that is not below the first of the table nor above the last
Within(h) == tbl_handle[0] <= h /\ h <= tbl_handle[tbl_size - 1]

\* app_get_attr_index_by_handle(): a handle of the table is found at its own index although right
\* starts one past the end and the arithmetic is unsigned; one that falls between two handles of
\* the table is not found.
HandleIsFound ==
    pc = "result" /\ Within(attr_handle) =>
        IF \E i \in 0 .. tbl_size - 1 : tbl_handle[i] = attr_handle
        THEN index \in 0 .. tbl_size - 1 /\ tbl_handle[index] = attr_handle
        ELSE index = INVALID_ATT_TBL_INDEX

\* app_gatt_read_by_type_handler(): "Read by type returns all attributes of the specified type,
\* between the start and end handles": up to where it has come, each once and in order.
ReadByTypeInOrder ==
    request.opcode = "READ_BY_TYPE" /\ pc \in {"find", "search", "result"} =>
        /\ {used[i] : i \in DOMAIN used} =
               {h \in of_type : request.s_handle <= h /\ h < attr_handle}
        /\ \A i, j \in DOMAIN used : i < j => used[i] < used[j]

\* app_gatt_read_by_type_handler() and GATT_APP_BUFFER_TRANSMITTED_EVT: whichever of the four ways
\* a read by type ends, its buffer has been freed or is the stack's to give back; the handlers
\* work with it only before.
BufferHasOneOwner ==
    /\ pc = "idle" => p_rsp # "held"
    /\ pc # "idle" /\ p_rsp # "none" => p_rsp = "held"

\* The handles a request makes the handlers look for
Sought ==
    IF request.opcode = "READ_BY_TYPE"
    THEN {h \in of_type : request.s_handle <= h /\ h <= request.e_handle}
    ELSE {request.s_handle}

\* The loops of the search and of app_gatt_read_by_type_handler(): a request that makes the
\* handlers look for handles between the first and the last of the table only is answered.
RequestEnds == pc # "idle" /\ (\A h \in Sought : Within(h)) ~> pc = "idle"

\* app_bt_gatt_handler.c:135: "@return int32_t The index of the valid attribute handle otherwise
\* INVALID_ATT_TBL_INDEX", for every handle.
IndexIsValidOrInvalid ==
    pc = "result" => index \in 0 .. tbl_size - 1 \cup {INVALID_ATT_TBL_INDEX}
=============================================================================
