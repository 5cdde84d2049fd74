------------------------------ MODULE HttpClient ------------------------------
(***************************************************************************)
(* CHttpClient (src/public/HttpClient.cpp): Get, Post, Gets and Posts make *)
(* a curl handle, set its options, perform the request and clean up.       *)
(* OnWriteData appends every piece of the body to the caller's string,     *)
(* which no method empties: a caller that uses a string again clears it or *)
(* not.  The body of call n is <<n, 1>>, <<n, 2>> ..., a pair for a piece. *)
(***************************************************************************)
EXTENDS Integers, Sequences

CONSTANTS
    NULL,           \* no handle, and no pCaPath
    CaPath,         \* a pCaPath
    MaxCalls,       \* bound: calls of the object
    MaxLength,      \* bound: pieces of a body
    MayFail         \* which of "init" and "perform" may fail

Bounds == MaxCalls \in Nat /\ MaxLength \in Nat
Failures == MayFail \subseteq {"init", "perform"}
CaIsNotNull == CaPath /= NULL

VARIABLES
    pc,             \* "idle", "init", "setopt" or "perform"
    calls,          \* number of calls made
    call,           \* the method, URL and pCaPath of the call under way
    curl,           \* the options of the handle, or NULL
    strResponse,    \* the caller's string
    before,         \* what it held when the call began
    length,         \* pieces the server's body has
    ret             \* the call's result

vars == <<pc, calls, call, curl, strResponse, before, length, ret>>

CURLE_OK == 0
CURLE_FAILED_INIT == 2
CURLE_OPERATION_TIMEDOUT == 28
Body(k) == [p \in 1..k |-> <<calls, p>>]

(* What a handle verifies and sends before an option is set.               *)
Default == [verify |-> TRUE, post |-> FALSE, write |-> FALSE, signal |-> TRUE, timeout |-> FALSE]

Init ==
    /\ pc = "idle" /\ calls = 0 /\ call = NULL /\ curl = NULL
    /\ strResponse = <<>> /\ before = <<>> /\ length = 0 /\ ret = CURLE_OK

(* Get and Post refuse https, Gets and Posts everything else.              *)
Call(method, https, supported, pCaPath) ==
    /\ pc = "idle" /\ calls < MaxCalls
    /\ call' = [method |-> method, https |-> https, pCaPath |-> pCaPath]
    /\ calls' = calls + 1
    /\ before' = strResponse
    /\ IF supported THEN pc' = "init" /\ UNCHANGED ret ELSE pc' = "idle" /\ ret' = -1
    /\ UNCHANGED <<curl, strResponse, length>>

Get(https)            == Call("Get", https, ~https, NULL)
Post(https)           == Call("Post", https, ~https, NULL)
Gets(https, pCaPath)  == Call("Gets", https, https, pCaPath)
Posts(https, pCaPath) == Call("Posts", https, https, pCaPath)

EasyInit ==
    /\ pc = "init"
    /\ \/ curl' = Default /\ pc' = "setopt" /\ UNCHANGED ret
       \/ "init" \in MayFail /\ curl' = NULL /\ pc' = "idle" /\ ret' = CURLE_FAILED_INIT
    /\ UNCHANGED <<calls, call, strResponse, before, length>>

Options ==
    [verify  |-> (call.method \in {"Gets", "Posts"} => call.pCaPath /= NULL),
     post    |-> (call.method \in {"Post", "Posts"}),
     write   |-> TRUE, signal |-> FALSE, timeout |-> TRUE]

SetOpt ==
    /\ pc = "setopt"
    /\ curl' = Options
    /\ pc' = "perform"
    /\ length' \in 0..MaxLength
    /\ UNCHANGED <<calls, call, strResponse, before, ret>>

Received == Len(strResponse) - Len(before)

(* libcurl calls with what has come; its size is 1, nmemb the bytes.       *)
OnWriteDataAssigns ==
    /\ pc = "perform" /\ curl.write /\ Received < length
    /\ strResponse' = <<<<calls, Received + 1>>>>
    /\ UNCHANGED <<pc, calls, call, curl, before, length, ret>>

OnWriteData ==
    /\ pc = "perform" /\ curl.write /\ Received < length
    /\ strResponse' = Append(strResponse, <<calls, Received + 1>>)
    /\ UNCHANGED <<pc, calls, call, curl, before, length, ret>>

(* curl_easy_perform ends with the body, or before it with an error;
   curl_easy_cleanup follows in every case.                                *)
Perform ==
    /\ pc = "perform"
    /\ \/ Received = length /\ ret' = CURLE_OK
       \/ "perform" \in MayFail /\ ret' = CURLE_OPERATION_TIMEDOUT
    /\ curl' = NULL
    /\ pc' = "idle"
    /\ UNCHANGED <<calls, call, strResponse, before, length>>

(* The caller's own.                                                       *)
Clear ==
    /\ pc = "idle" /\ strResponse /= <<>>
    /\ strResponse' = <<>> /\ before' = <<>> /\ length' = 0
    /\ UNCHANGED <<pc, calls, call, curl, ret>>

Next ==
    \/ \E https \in BOOLEAN : Get(https) \/ Post(https)
    \/ \E https \in BOOLEAN, pCaPath \in {NULL, CaPath} :
          Gets(https, pCaPath) \/ Posts(https, pCaPath)
    \/ EasyInit \/ SetOpt \/ OnWriteData \/ Perform \/ Clear

Spec == Init /\ [][Next]_vars

-----------------------------------------------------------------------------
(* A call that succeeds has put the whole body of its response, and nothing
   else, behind what the string held; one that fails has put the beginning
   of it there, one that is refused nothing.  So the string is the body only
   when the caller cleared it, also after a failed try
   (HttpClient.cpp:48-60).                                                 *)
ResponseIsBehind ==
    /\ \E k \in 0..length : strResponse = before \o Body(k)
    /\ pc = "idle" /\ ret = CURLE_OK => strResponse = before \o Body(length)
    /\ pc \in {"init", "setopt"} => strResponse = before

(* A handle lives as long as its call, https is verified exactly when there
   is something to verify it with, and no request goes out without its time
   limits (HttpClient.cpp:62-274).                                         *)
HandleIsRight ==
    /\ pc = "idle" => curl = NULL
    /\ pc = "perform" =>
          /\ call.https /\ call.pCaPath /= NULL => curl.verify
          /\ call.https => call.method \in {"Gets", "Posts"}
          /\ curl.timeout /\ ~curl.signal
=============================================================================
