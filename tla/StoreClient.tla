----------------------------- MODULE StoreClient -----------------------------
(***************************************************************************)
(* The Cartridge Store browser: the catalogue with its fallback through     *)
(* discovery and a list of endpoints, the icon cache, downloads, and the    *)
(* one "loading" flag and one error text they share.  Requests are answered *)
(* in any order; an answer speaks for the store that was asked, whatever    *)
(* the address is by then.                                                  *)
(*                                                                         *)
(* A catalogue is the store it comes from and the ids it lists; an icon or  *)
(* a cartridge is the store it comes from; an error text is whether there   *)
(* is one.                                                                  *)
(***************************************************************************)
EXTENDS Integers, Bags

CONSTANTS
  Store,      (* store addresses the user can enter                          *)
  Default,    (* PRG32QT_DEFAULT_STORE                                       *)
  Game,         (* cartridge ids                                               *)
  NoGame,       (* the id of an entry without one                              *)
  None,
  Endpoints,  (* catalogue endpoints tried when discovery names none (4)     *)
  MaxUses     (* bound on what the user does                                 *)

ASSUME StoreAssumption ==
  /\ Default \in Store /\ NoGame \notin Game /\ None \notin Store
  /\ Endpoints \in Nat \ {0} /\ MaxUses \in Nat

VARIABLES
  base,       (* base_                                                       *)
  carts,      (* cartridges_: the store it came from and the ids it lists    *)
  icons,      (* icons_: the store of each id's icon, None when there is none *)
  loading,    (* loading_                                                    *)
  error,      (* error_ is not empty                                         *)
  net,        (* the bag of requests in flight                               *)
  started,    (* the last cartridge handed to AppController::loadBytes, by the store it came from *)
  \* history
  mixed,      (* requests to another store were in flight when the address changed, or were sent since *)
  uses        (* what the user has done so far                               *)

storeVars == <<base, carts, icons, loading, error, net, started, mixed, uses>>

Games(s) == [kind |-> "games", store |-> s]
Discovery(s) == [kind |-> "discovery", store |-> s]
Catalog(s, n) == [kind |-> "catalog", store |-> s, left |-> n]
Icon(s, id) == [kind |-> "icon", store |-> s, id |-> id]
Download(s, id) == [kind |-> "download", store |-> s, id |-> id]

Request ==
  [kind : {"games", "discovery"}, store : Store]
    \cup [kind : {"catalog"}, store : Store, left : 0 .. Endpoints]
    \cup [kind : {"icon"}, store : Store, id : Game]
    \cup [kind : {"download"}, store : Store, id : Game]

InFlight == BagToSet(net)
Send(bag, rs) == bag (+) SetToBag(rs)
Remaining(r) == net (-) SetToBag({r})

StoreTypeOK ==
  /\ base \in Store /\ loading \in BOOLEAN /\ error \in BOOLEAN /\ mixed \in BOOLEAN
  /\ carts \in [store : Store \cup {None}, ids : SUBSET (Game \cup {NoGame})]
  /\ icons \in [Game -> Store \cup {None}]
  /\ IsABag(net) /\ InFlight \subseteq Request
  /\ started \in Store \cup {None} /\ uses \in 0 .. MaxUses

(* The constructor, and the refresh of the splash screen. *)
StoreInit ==
  /\ base = Default
  /\ carts = [store |-> None, ids |-> {}]
  /\ icons = [id \in Game |-> None]
  /\ loading = TRUE /\ error = FALSE
  /\ net = SetToBag({Games(Default)})
  /\ started = None /\ mixed = FALSE /\ uses = 0
-----------------------------------------------------------------------------
(* The user. *)

Use == uses < MaxUses /\ uses' = uses + 1

(* refresh(), with the address b. *)
RefreshFrom(b) ==
  /\ error' = FALSE
  /\ loading' = TRUE
  /\ net' = Send(net, {Games(b)})

(* The Refresh button.  "Test connection" with an invalid address does the same: *)
(* setBaseUrl() refuses it and says so, and the refresh() that follows in the    *)
(* handler takes the message away.                                               *)
Refresh ==
  /\ Use
  /\ RefreshFrom(base)
  /\ UNCHANGED <<base, carts, icons, started, mixed>>

(* Mutant: the icons of the store that is left stay. *)
ChangeStoreKeepsIcons(u) ==
  /\ Use
  /\ base' = u
  /\ mixed' = IF u = base THEN mixed ELSE InFlight # {}
  /\ RefreshFrom(u)
  /\ UNCHANGED <<carts, icons, started>>

(* setBaseUrl() or resetDefault(), and the refresh() the button calls after it. *)
ChangeStore(u) ==
  /\ Use
  /\ base' = u
  /\ icons' = IF u = base THEN icons ELSE [id \in Game |-> None]
  /\ mixed' = IF u = base THEN mixed ELSE InFlight # {}
  /\ RefreshFrom(u)
  /\ UNCHANGED <<carts, started>>

(* downloadGame() of a listed cartridge, from the store of the address. *)
DownloadGame(id) ==
  /\ Use
  /\ id \in carts.ids
  /\ IF id = NoGame THEN error' = TRUE /\ UNCHANGED <<loading, net>>
     ELSE loading' = TRUE /\ net' = Send(net, {Download(base, id)}) /\ UNCHANGED error
  /\ UNCHANGED <<base, carts, icons, started, mixed>>
-----------------------------------------------------------------------------
(* The answers.  Each handler starts with its request out of the network. *)

(* Mutant: a catalogue that lists nothing shows nothing new. *)
ListedUnlessEmpty(r, ids) ==
  /\ carts' = IF ids = {} THEN carts ELSE [store |-> r.store, ids |-> ids]
  /\ net' = Send(Remaining(r), { Icon(base, id) : id \in { i \in ids \ {NoGame} : icons[i] = None } })
  /\ loading' = FALSE /\ error' = FALSE

(* A catalogue with these ids: it is shown, and the icons that are missing are *)
(* asked for, at the address as it is now.                                     *)
Listed(r, ids) ==
  /\ carts' = [store |-> r.store, ids |-> ids]
  /\ net' = Send(Remaining(r), { Icon(base, id) : id \in { i \in ids \ {NoGame} : icons[i] = None } })
  /\ loading' = FALSE /\ error' = FALSE

(* A request that ends without a catalogue. *)
Failed(r) ==
  /\ net' = Remaining(r)
  /\ loading' = FALSE /\ error' = TRUE
  /\ UNCHANGED carts

(* A step that asks further, at the address as it is now. *)
Asks(r, q) ==
  /\ net' = Send(Remaining(r), {q})
  /\ UNCHANGED <<carts, loading, error>>

GamesAnswered(r) ==
  \/ \E ids \in SUBSET (Game \cup {NoGame}) : Listed(r, ids)
  \/ Asks(r, Discovery(base))

(* Mutant: the list of endpoints is started again. *)
NextEndpointAgain(r) == Asks(r, Catalog(base, IF r.left = 0 THEN Endpoints ELSE r.left - 1))

(* The endpoints that are left to try after request r failed. *)
NextEndpoint(r) ==
  IF r.left = 0 THEN Failed(r) ELSE Asks(r, Catalog(base, r.left - 1))

(* The discovery document fails or is of another ABI; or it names a catalogue, *)
(* by a whole URL (on behalf of its own store) or a path of the address, or    *)
(* none.                                                                       *)
DiscoveryAnswered(r) ==
  \/ Failed(r)
  \/ \E s \in {r.store, base} : Asks(r, Catalog(s, Endpoints))
  \/ Asks(r, Catalog(base, Endpoints - 1))

CatalogAnswered(r) ==
  \/ \E ids \in SUBSET (Game \cup {NoGame}) : Listed(r, ids)
  \/ NextEndpoint(r)

IconAnswered(r) ==
  /\ \/ icons' = [icons EXCEPT ![r.id] = r.store]
     \/ UNCHANGED icons
  /\ net' = Remaining(r)
  /\ UNCHANGED <<carts, loading, error>>

(* onCartridgeDownloaded hands what starts with "PRG2" to loadBytes(). *)
DownloadAnswered(r) ==
  /\ net' = Remaining(r)
  /\ loading' = FALSE
  /\ \/ error' = FALSE /\ started' = r.store
     \/ error' = TRUE /\ UNCHANGED started
  /\ UNCHANGED carts

Answer ==
  \E r \in InFlight :
    /\ \/ r.kind = "games" /\ GamesAnswered(r) /\ UNCHANGED <<icons, started>>
       \/ r.kind = "discovery" /\ DiscoveryAnswered(r) /\ UNCHANGED <<icons, started>>
       \/ r.kind = "catalog" /\ CatalogAnswered(r) /\ UNCHANGED <<icons, started>>
       \/ r.kind = "icon" /\ IconAnswered(r) /\ UNCHANGED started
       \/ r.kind = "download" /\ DownloadAnswered(r) /\ UNCHANGED icons
    /\ UNCHANGED <<base, mixed, uses>>

StoreNext ==
  \/ Refresh
  \/ \E u \in Store : ChangeStore(u)
  \/ \E id \in Game \cup {NoGame} : DownloadGame(id)
  \/ Answer

StoreSpec == StoreInit /\ [][StoreNext]_storeVars

(* While requests are in flight answers keep coming, if only as the failure    *)
(* that finished() reports.  This is asked of the network, not of the code,    *)
(* which sets no transfer timeout: a server that accepts and then says nothing *)
(* is outside it.                                                              *)
StoreFairSpec == StoreSpec /\ WF_storeVars(Answer)
-----------------------------------------------------------------------------
(* When nothing is in flight the page is never blank without a reason: there  *)
(* is a catalogue or an error text.                                           *)
NeverBlank == InFlight = {} => error \/ carts.store # None

(* The icons shown are those of the address, unless answers of another store  *)
(* were still on their way when the address changed: setBaseUrl() empties the *)
(* cache and every icon after that is asked of the new address.               *)
IconsOfAddress == ~mixed => \A id \in Game : icons[id] \in {None, base}

(* With nothing in flight and no error shown, the catalogue is the one asked  *)
(* for at the address.  Answers on their way when the address changed can     *)
(* break it, and so can a download, whose success takes away the error text   *)
(* of a refresh that failed: both are excluded.                               *)
CatalogueOfAddress ==
  InFlight = {} /\ ~error /\ ~mixed /\ started = None => carts.store = base

(* Loading ends: the chain of catalogue, discovery and endpoints cannot go on *)
(* for ever, and each of its ends takes the flag back.                        *)
LoadingEnds == loading ~> ~loading

(* A page with nothing on its way shows a catalogue or says why not.          *)
PageExplained == StoreTypeOK /\ NeverBlank

(* Icons and catalogue are those of the address, but for the answers that     *)
(* crossed its change.                                                        *)
ShownOfAddress == IconsOfAddress /\ CatalogueOfAddress
=============================================================================
