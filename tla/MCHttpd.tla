------------------------------ MODULE MCHttpd ------------------------------
(* Requests of each sort: pages that answer in one call and in several, a  *)
(* file, one that ends at a boundary, one that is gzipped, each on kept    *)
(* connections and on others.                                              *)
EXTENDS Httpd

Asking(url, head, body, calls, empty, stale) ==
  [url |-> url, head |-> head, body |-> body, calls |-> calls, empty |-> empty,
   stale |-> stale]
New == <<"HTTP/1.1">>
Old == <<"HTTP/1.0">>
Length == <<"Content-Length">>
Close == <<"Connection: close">>
Gzip == <<"Accept-Encoding: gzip">>
MCRequest ==
  {Asking("page", New, 0, 1, FALSE, FALSE),
   Asking("page", New \o Length, 1, 3, FALSE, FALSE),
   Asking("page", New \o Length \o Close, 1, 1, FALSE, FALSE),
   Asking("/", New, 0, 1, FALSE, FALSE),
   Asking("missing", Old, 0, 1, FALSE, FALSE),
   Asking("file", New, 0, 3, FALSE, FALSE), Asking("file", New, 0, 2, TRUE, FALSE),
   Asking("file", Old, 0, 3, FALSE, FALSE), Asking("file", Old, 0, 3, TRUE, FALSE),
   Asking("zipped", New \o Gzip, 0, 2, FALSE, FALSE),
   Asking("zipped", New, 0, 2, FALSE, FALSE), Asking("zipped", Old, 0, 2, FALSE, TRUE)}
=============================================================================
