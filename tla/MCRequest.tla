------------------------------- MODULE MCRequest -------------------------------
(* A small instance of Request for TLC. *)
EXTENDS Request

(* Words: GET, HTTP/1.1, two words of a URI, the names of headers - of     *)
(* Content-Disposition, too, which names.cc prints as "unknown" - and a    *)
(* value.                                                                  *)
MCSymbol == {"GET", "HTTP/1.1", "u", "Request-URI", "Host", "Accept", "unknown",
             "Content-Disposition", "x", " ", ",", ":", "="}

MCProperty == {"UNKNOWN", "END", "GET", "HTTP11", "Request_URI", "Host", "Accept",
               "Content_Disposition"}
MCNamed == <<"GET", "HTTP11", "Request_URI", "Accept", "Host", "Content_Disposition">>
MCPrinted == [p \in MCProperty |->
  CASE p = "GET" -> "GET" [] p = "HTTP11" -> "HTTP/1.1" [] p = "Request_URI" -> "Request-URI"
    [] p = "Host" -> "Host" [] p = "Accept" -> "Accept" [] OTHER -> "unknown"]

MCFirst == {<<>>, <<"GET">>, <<"GET", " ", "u">>, <<"GET", " ", "u", " ", "HTTP/1.1">>,
            <<" ", "GET", " ", " ", "u", " ", "x", " ", "HTTP/1.1", " ">>}

(* Headers that are repeated, unknown, empty, spaced, without a name and   *)
(* with a colon in the value, or named like the URI; continuation lines; a *)
(* malformed line; the end.                                                *)
MCOther == {<<"Host", ":", "x">>, <<"Accept", " ", ":", " ", "x", " ">>, <<"Accept", ":">>,
            <<"x", ":", " ", "x", ":", "x">>, <<":", "x">>, <<" ", "Host", ":", "x">>,
            <<" ", " ", "x", " ">>, <<"Host", "=", "x">>, <<"Content-Disposition", ":", "x">>,
            <<"Request-URI", ":", " ", "x">>, <<" ">>}

(* For a run in which the URI is another afterwards. *)
MCUriFirst == {<<"GET", " ", "u", " ", "HTTP/1.1">>}
=============================================================================
