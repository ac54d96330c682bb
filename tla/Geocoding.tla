------------------------------ MODULE Geocoding ------------------------------
(***************************************************************************)
(* The geocoders of src/backend: what each client can answer, and the      *)
(* chain that asks one after the other (geocoder.go).  A label is a name,  *)
(* "Unknown" (the service knows no name) or the coordinates; only a name   *)
(* is a strong result.  A cached label is one the client gave before, so   *)
(* that the caches add no answer to those below.                           *)
(***************************************************************************)
EXTENDS Naturals, Sequences, FiniteSetsExt

CONSTANT Configured     \* the list in GEOCODE_PROVIDER
ASSUME ConfiguredAssumption == Configured \in Seq({"nominatim", "here", "google"})

LabelKinds == {"name", "Unknown", "coords"}
Failed == "failed"

\* isWeakResult
Strong(label) == label = "name"

\* buildLabel: a place, a state and a country, or "Unknown" when all are empty.
Built == {"name", "Unknown"}

(***************************************************************************)
(* The clients.  HERE answers with coordinates when it has no item, Google *)
(* also when its address is empty; Google replaces "Unknown" by its own    *)
(* formatted address.                                                      *)
(***************************************************************************)
NominatimReverse == Built \union {Failed}
HereReverse == Built \union {"coords", Failed}
GoogleReverse == {"name", "coords", Failed}

ReverseOf(client) == CASE client = "nominatim" -> NominatimReverse
                     [] client = "here" -> HereReverse
                     [] client = "google" -> GoogleReverse

\* What a forward search finds: places, nothing, or an error.
NominatimForward == {"places", "nothing", Failed}
HereForward == {"places", "nothing", Failed}
GoogleForward == {"places", "nothing", Failed}

ForwardOf(client) == CASE client = "nominatim" -> NominatimForward
                     [] client = "here" -> HereForward
                     [] client = "google" -> GoogleForward

\* newGeocodeProvider: Nominatim comes first, whatever the list says.
Chain == <<"nominatim">> \o SelectSeq(Configured, LAMBDA p : p # "nominatim")

\* Without another client there is no chain, and an error of Nominatim is the answer.
Alone == Len(Chain) = 1

Failing(answer) == answer = Failed

\* The answers of the clients of the chain, in its order.
ReverseAnswers == {a \in [1..Len(Chain) -> LabelKinds \union {Failed}] :
                     \A i \in 1..Len(Chain) : a[i] \in ReverseOf(Chain[i])}

(***************************************************************************)
(* chainGeocoder.ReverseGeocode: the first strong result; without one, the *)
(* first result at all; without any, the coordinates.                      *)
(***************************************************************************)
ReverseGeocode(a) ==
    LET strong == {i \in DOMAIN a : Strong(a[i])}
        given == {i \in DOMAIN a : ~Failing(a[i])}
    IN  IF Alone THEN a[1]
        ELSE IF strong # {} THEN a[Min(strong)]
        ELSE IF given # {} THEN a[Min(given)]
        ELSE "coords"
ForwardAnswers == {a \in [1..Len(Chain) -> {"places", "nothing", Failed}] :
                     \A i \in 1..Len(Chain) : a[i] \in ForwardOf(Chain[i])}

(***************************************************************************)
(* chainGeocoder.ForwardSearch: the first places anybody finds; without    *)
(* any, an error if somebody failed.                                       *)
(***************************************************************************)
ForwardSearch(a) ==
    CASE Alone -> a[1]
      [] ~Alone /\ (\E i \in DOMAIN a : a[i] = "places") -> "places"
      [] ~Alone /\ (\A i \in DOMAIN a : a[i] = "nothing") -> "nothing"
      [] OTHER -> Failed

(***************************************************************************)
(* handleGeocodeSearch: one retry after an error, unless the caller is     *)
(* gone by then.                                                           *)
(***************************************************************************)
GeocodeSearch(first, second, gone) ==
    CASE ForwardSearch(first) # Failed -> ForwardSearch(first)
      [] ForwardSearch(first) = Failed /\ gone -> "timeout"
      [] ForwardSearch(first) = Failed /\ ~gone /\ ForwardSearch(second) # Failed -> ForwardSearch(second)
      [] OTHER -> "bad gateway"
==============================================================================
