---------------------------- MODULE WatchedStore ----------------------------
(***************************************************************************)
(* An object of the Kubernetes API server as an operator process sees it.  *)
(*                                                                         *)
(* The reconcilers read through the manager's client, that is from an      *)
(* informer cache, and write to the API server.  A watch carries every new *)
(* version from the server to the cache, in order, some time after it was  *)
(* written.  An object is therefore a nonempty "window" of versions: the   *)
(* first is the one in the cache, the last the one in the API server, and  *)
(* those after the first are watch events still on their way.              *)
(***************************************************************************)
EXTENDS Naturals, Sequences

(* All versions in the window.                                             *)
Versions(w) == {w[i] : i \in DOMAIN w}

(* The version a Get of the cached client returns.                         *)
Cached(w) == Head(w)

(* The version the API server holds.                                       *)
Current(w) == w[Len(w)]

(* The window after the API server accepted version v.                     *)
Stored(w, v) == Append(w, v)

(* Some watch events have not reached the cache yet.                       *)
Lagging(w) == Len(w) > 1

(* The window after the cache took in the oldest outstanding watch event.  *)
Delivered(w) == Tail(w)

(* The window of a process that has just started: its first List fills the *)
(* cache with what the API server holds.                                   *)
Relisted(w) == <<Current(w)>>
=============================================================================
