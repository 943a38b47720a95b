----------------------------- MODULE HttpParse -----------------------------
(***************************************************************************)
(* CHttpParse::Parse (HttpParse.cpp): one request buffer and one response  *)
(* buffer are cut into fields.  A buffer is a sequence of tokens: the      *)
(* separators the parser looks for, and words without separators.  Every   *)
(* action is one search of the parser (GetBufByTag) or one round of        *)
(* ParseHeader's loop; pos is the parser's position, counted from 1.       *)
(*                                                                         *)
(* The buffers are what a session can hold when it is flushed: a beginning *)
(* of a message and of what follows it.  Behind the last byte of a buffer  *)
(* lies what an earlier exchange left in the block; the tests for "\r\n"   *)
(* may read one such byte, stale.                                          *)
(***************************************************************************)
EXTENDS Integers, Sequences, FiniteSetsExt, SequencesExt

CONSTANTS
    Requests, Responses,   \* the messages: [line, headers, eol, body]
    Methods,               \* the methods GetMethod knows
    AnyMethod,             \* what it returns for another: it falls off its end
    Versions, Codes,       \* words that are versions, and numbers
    Width(_),              \* bytes of a token
    Stale                  \* what may lie behind a buffer

SP == "SP"   LF == "LF"   CR == "CR"   COLON == ":"

VARIABLES
    request, response,     \* the messages the buffers were cut from
    reqBuf, rspBuf, stale,
    pc, pos, result

inputs == <<request, response, reqBuf, rspBuf, stale>>
vars == <<inputs, pc, pos, result>>

-----------------------------------------------------------------------------
(* The messages, and the buffers a flush may find. *)
HeaderLines(m) ==
    FlattenSeq([i \in DOMAIN m.headers |->
                    <<m.headers[i].key, COLON>> \o m.headers[i].value \o m.eol])
HeadOf(m) == m.line \o m.eol \o HeaderLines(m) \o m.eol
Buffers(m) == Prefixes(HeadOf(m) \o m.body) \ {<< >>}

Bytes(b) == FoldLeft(LAMBDA n, t : n + Width(t), 0, b)

(* Every line ends where it should, a status line may have a note of many  *)
(* words, or none, and a body anything.                                    *)
WellFormed(m) ==
    /\ m.eol \in {<<LF>>, <<CR, LF>>}
    /\ m.line \in Seq(STRING \ {LF, CR}) /\ Len(m.line) >= 4
    /\ m.line[1] # SP /\ m.line[2] = SP /\ m.line[3] # SP /\ m.line[4] = SP
    /\ m.headers \in Seq([key : STRING \ {SP, LF, CR, COLON}, value : Seq(STRING \ {LF, CR})])
    /\ m.body \in Seq(STRING)

ASSUME MessagesAssumption ==
    /\ \A m \in Requests \cup Responses :
          /\ WellFormed(m)
          /\ \A b \in Buffers(m) : IsPrefix(HeadOf(m), b) => Bytes(b) > 10
    /\ \A m \in Requests : Len(m.line) = 5 /\ m.line[5] \in Versions
    /\ \A m \in Responses : m.eol = <<LF>> => \A i \in DOMAIN m.body : m.body[i] # CR

EmptyResult == [method |-> "UNKNOWN", url |-> << >>, version |-> << >>, code |-> << >>,
                note |-> << >>, reqHeader |-> << >>, rspHeader |-> << >>]

-----------------------------------------------------------------------------
(* strncmp(b + i, tag, Len(tag)) = 0 *)
MatchAt(b, i, tag) ==
    \A j \in DOMAIN tag : tag[j] = IF i + j - 1 <= Len(b) THEN b[i + j - 1] ELSE stale

(* GetBufByTag from position i: where the tag may be, and the text before. *)
TagsFrom(b, i, tag) == {k \in i .. Len(b) : MatchAt(b, k, tag)}
Lacks(b, tag) == TagsFrom(b, pos, tag) = {}
NextTag(b, i, tag) == Min(TagsFrom(b, i, tag))
Upto(b, tag) == SubSeq(b, pos, NextTag(b, pos, tag) - 1)

(* "pos += ret" and the skip of the tag. *)
Skip(b, tag) == pos' = NextTag(b, pos, tag) + Len(tag)

Store(step, field, value) == pc' = step /\ result' = [result EXCEPT ![field] = value]

(* A failed search: CSession::Reset drops the exchange. *)
Fail == pc' = "reset" /\ UNCHANGED <<pos, result>>

-----------------------------------------------------------------------------
Init ==
    /\ request \in Requests /\ reqBuf \in Buffers(request)
    /\ response \in Responses /\ rspBuf \in Buffers(response)
    /\ stale \in Stale
    /\ pc = "begin" /\ pos = 1 /\ result = EmptyResult

M_ToResponse == pos' = pos                           \* pos = 0 forgotten
                /\ pc' = IF Bytes(rspBuf) > 10 THEN "rspVersion" ELSE "sent"

(* A message of ten bytes or less is skipped, not refused.  Behind the     *)
(* response comes Send.                                                    *)
ToResponse ==
    /\ pos' = 1
    /\ pc' = IF Bytes(rspBuf) > 10 THEN "rspVersion" ELSE "sent"

Begin ==
    /\ pc = "begin"
    /\ IF Bytes(reqBuf) > 10 THEN pc' = "method" /\ UNCHANGED pos ELSE ToResponse
    /\ UNCHANGED <<inputs, result>>

GetMethod(text) == IF Len(text) = 1 /\ text[1] \in Methods THEN {text[1]} ELSE AnyMethod

(* GetVersion: eight bytes, "HTTP/" and a number. *)
IsVersion(text) == Len(text) = 1 /\ text[1] \in Versions

ParseMethod ==
    /\ pc = "method"
    /\ IF Lacks(reqBuf, <<SP>>) THEN Fail
       ELSE /\ \E m \in GetMethod(Upto(reqBuf, <<SP>>)) : Store("url", "method", m)
            /\ Skip(reqBuf, <<SP>>)
    /\ UNCHANGED inputs

ParseUrl ==
    /\ pc = "url"
    /\ IF Lacks(reqBuf, <<SP>>) THEN Fail
       ELSE Store("version", "url", Upto(reqBuf, <<SP>>)) /\ Skip(reqBuf, <<SP>>)
    /\ UNCHANGED inputs

ParseVersion ==
    /\ pc = "version"
    /\ IF Lacks(reqBuf, <<LF>>) \/ ~IsVersion(Upto(reqBuf, <<LF>>)) THEN Fail
       ELSE Store("reqHeader", "version", Upto(reqBuf, <<LF>>)) /\ Skip(reqBuf, <<LF>>)
    /\ UNCHANGED inputs

(* The response must have the version of the request; result's is unknown  *)
(* if the request was skipped.                                             *)
ParseRspVersion ==
    /\ pc = "rspVersion"
    /\ IF Lacks(rspBuf, <<SP>>) \/ ~IsVersion(Upto(rspBuf, <<SP>>))
             \/ Upto(rspBuf, <<SP>>) # result.version
       THEN Fail
       ELSE pc' = "code" /\ Skip(rspBuf, <<SP>>) /\ UNCHANGED result
    /\ UNCHANGED inputs

(* boost::lexical_cast<uint32_t> *)
IsCode(text) == Len(text) = 1 /\ text[1] \in Codes

ParseCode ==
    /\ pc = "code"
    /\ IF Lacks(rspBuf, <<SP>>) \/ ~IsCode(Upto(rspBuf, <<SP>>)) THEN Fail
       ELSE Store("note", "code", Upto(rspBuf, <<SP>>)) /\ Skip(rspBuf, <<SP>>)
    /\ UNCHANGED inputs

M_ParseNote ==                       \* "pos += 1", as for the request line
    /\ pc = "note"
    /\ IF Lacks(rspBuf, <<CR, LF>>) THEN Fail
       ELSE /\ Store("rspHeader", "note", Upto(rspBuf, <<CR, LF>>))
            /\ pos' = NextTag(rspBuf, pos, <<CR, LF>>) + 1
    /\ UNCHANGED inputs

ParseNote ==
    /\ pc = "note"
    /\ IF Lacks(rspBuf, <<CR, LF>>) THEN Fail
       ELSE Store("rspHeader", "note", Upto(rspBuf, <<CR, LF>>)) /\ Skip(rspBuf, <<CR, LF>>)
    /\ UNCHANGED inputs

-----------------------------------------------------------------------------
(* ParseHeader *)

M_WithoutBytes(next) == next         \* the end of the buffer taken for the end of the header

(* "!(len - pos)": no byte left. *)
WithoutBytes(next) == "reset"

M_SkipBlank(b) == 2                  \* "\n" taken for "\r\n"

SkipBlank(b) == IF MatchAt(b, pos, <<LF>>) THEN 1 ELSE 2

EndOfHeader(b) == MatchAt(b, pos, <<LF>>) \/ MatchAt(b, pos, <<CR, LF>>)

(* The key goes up to a colon, the value from there to a line end: its     *)
(* leading space and trailing CR stay in it.                               *)
Colon(b) == NextTag(b, pos, <<COLON>>)
LineEnd(b) == NextTag(b, Colon(b) + 1, <<LF>>)
IsField(b) == ~Lacks(b, <<COLON>>) /\ TagsFrom(b, Colon(b) + 1, <<LF>>) # {}

(* headmap[key] = value: a second line with the key replaces the first. *)
Put(map, key, value) ==
    [k \in DOMAIN map \cup {key} |-> IF k = key THEN value ELSE map[k]]

M_NextLine(b) == pos                 \* the loop does not move on

NextLine(b) == LineEnd(b) + 1

(* One round of the loop over b.  Past the end, where only a stale byte    *)
(* can lead, the unsigned remaining length is not 0: the heap decides      *)
(* whether a line end is seen there; GetBufByTag takes the length for a    *)
(* negative int and finds nothing.                                         *)
HeaderRound(b, field, next) ==
    \/ pos > Len(b) + 1 /\ pc' \in {next, "reset"} /\ UNCHANGED <<pos, result>>
    \/ pos = Len(b) + 1 /\ pc' = WithoutBytes(next) /\ UNCHANGED <<pos, result>>
    \/ /\ pos <= Len(b) /\ EndOfHeader(b)
       /\ pos' = pos + SkipBlank(b)
       /\ pc' = next
       /\ UNCHANGED result
    \/ pos <= Len(b) /\ ~EndOfHeader(b) /\ ~IsField(b) /\ Fail
    \/ /\ pos <= Len(b) /\ ~EndOfHeader(b) /\ IsField(b)
       /\ pos' = NextLine(b)
       /\ LET key == SubSeq(b, pos, Colon(b) - 1)
              value == SubSeq(b, Colon(b) + 1, LineEnd(b) - 1)
          IN  Store(pc, field, Put(result[field], key, value))

ParseReqHeader ==
    /\ pc = "reqHeader"
    /\ HeaderRound(reqBuf, "reqHeader", "rspBegin")
    /\ UNCHANGED inputs

(* ParseReqData accepts; on to the response. *)
RequestDone == pc = "rspBegin" /\ ToResponse /\ UNCHANGED <<inputs, result>>

(* ParseRspData accepts; Send writes the record. *)
ParseRspHeader ==
    /\ pc = "rspHeader"
    /\ HeaderRound(rspBuf, "rspHeader", "sent")
    /\ UNCHANGED inputs

Next ==
    \/ Begin \/ ParseMethod \/ ParseUrl \/ ParseVersion \/ ParseReqHeader \/ RequestDone
    \/ ParseRspVersion \/ ParseCode \/ ParseNote \/ ParseRspHeader

Spec == Init /\ [][Next]_vars /\ WF_vars(Next)

-----------------------------------------------------------------------------
Whole(m, b) == IsPrefix(HeadOf(m), b)

(* The byte behind the response makes a "\r\n" of its last CR. *)
StaleEnd == stale = LF /\ Last(rspBuf) = CR

(* A record is never made of a message cut off inside its head: what a     *)
(* timeout or a FIN flushes too early is dropped.  Messages of at most ten *)
(* bytes and a final CR completed by a stale byte are let through.         *)
NoPartialMessage ==
    pc = "sent" =>
        /\ Bytes(reqBuf) > 10 => Whole(request, reqBuf)
        /\ Bytes(rspBuf) > 10 => Whole(response, rspBuf) \/ StaleEnd

(* A whole request with "\n" and a whole answer with "\r\n" of the same    *)
(* version are recorded, whatever headers they have and whatever follows.  *)
Answerable ==
    /\ Whole(request, reqBuf) /\ Whole(response, rspBuf)
    /\ request.line[5] = response.line[1] /\ response.line[3] \in Codes
WholeExchangeSent == Answerable /\ request.eol = <<LF>> /\ response.eol = <<CR, LF>>
                        => pc # "reset"

(* The fields of a record are those of the messages: of several headers    *)
(* with one name the last, its value with the leading space and the CR.    *)
HeaderMap(m, tail) ==
    [k \in {<<m.headers[i].key>> : i \in DOMAIN m.headers} |->
        LET i == Max({j \in DOMAIN m.headers : <<m.headers[j].key>> = k})
        IN  m.headers[i].value \o tail]

FieldsFaithful ==
    pc = "sent" /\ Whole(request, reqBuf) /\ Whole(response, rspBuf) =>
        /\ request.line[1] \in Methods => result.method = request.line[1]
        /\ result.url = <<request.line[3]>>
        /\ result.version = <<request.line[5]>>
        /\ result.reqHeader = HeaderMap(request, << >>)
        /\ result.code = <<response.line[3]>>
        /\ result.note = SubSeq(response.line, 5, Len(response.line))
        /\ result.rspHeader = HeaderMap(response, <<CR>>)

(* The parser's position never leaves the buffer, where the unsigned       *)
(* remaining length would wrap, unless a stale byte leads it out.          *)
StaysInside ==
    /\ pc \in {"method", "url", "version", "reqHeader", "rspBegin"} => pos <= Len(reqBuf) + 1
    /\ pc \in {"rspVersion", "code", "note", "rspHeader", "sent"} =>
          pos <= Len(rspBuf) + 1 \/ StaleEnd

(* Parse returns: every round of the header loop gets closer to an end. *)
ParseReturns == <>(pc \in {"sent", "reset"})

(* HttpParse.cpp:140, "skip the \r\n": a request whose lines end in "\r\n" *)
(* is decoded like any other.                                              *)
CRLFRequestSent ==
    Answerable /\ request.eol = <<CR, LF>> /\ response.eol = <<CR, LF>> => pc # "reset"
=============================================================================
