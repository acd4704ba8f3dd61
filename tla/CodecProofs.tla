------------------------------ MODULE CodecProofs ------------------------------
(***************************************************************************)
(* Theorems about the messages and their JSON form: every message is read  *)
(* back as it was written, and a channel's state that goes to a browser    *)
(* and comes back has, on the way from go-perun's assets and balances to   *)
(* a message, to JSON and all the way back, lost nothing and mixed up      *)
(* nothing.                                                                *)
(*                                                                         *)
(* For every part of a message there are two lemmas: its trip, that        *)
(* decoding what was encoded gives it back, and its shape, that decoding   *)
(* gives a value with the fields of the Go type and one that makes the     *)
(* trip.                                                                   *)
(***************************************************************************)
EXTENDS Codec, TLAPS

(* What stands for an error or for nil is nothing a message, a list, a     *)
(* number or a name can be.                                                *)
BadIsNoValue ==
    /\ Bad # Null
    /\ \A x \in {Bad, Null} : x \notin Int /\ \A S, T : x \notin [S -> T]
    /\ \A names \in {TimeoutNames, EthereumTypeNames, SolanaTypeNames} :
          \A i \in DOMAIN names : names[i] # Null

LEMMA FcnIsGood ==
    ASSUME BadIsNoValue, NEW f, IsFcn(f)
    PROVE  f # Bad /\ f # Null
<1>1. f \in [DOMAIN f -> {f[y] : y \in DOMAIN f}]
    BY DEF IsFcn
<1>2. \A x \in {Bad, Null} : x \notin [DOMAIN f -> {f[y] : y \in DOMAIN f}]
    BY DEF BadIsNoValue
<1> QED BY <1>1, <1>2

(* A field that is changed and changed back, and two of them.              *)
LEMMA OneBack ==
    ASSUME NEW f, NEW k, Fields(f, {k}), NEW y
    PROVE  LET g == [f EXCEPT ![k] = y]
           IN  g[k] = y /\ Fields(g, {k}) /\ [g EXCEPT ![k] = f[k]] = f
BY DEF Fields, IsFcn

LEMMA TwoBack ==
    ASSUME NEW f, NEW k, NEW l, k # l, Fields(f, {k, l}), NEW y, NEW z
    PROVE  LET g == [f EXCEPT ![k] = y, ![l] = z]
           IN  /\ g[k] = y /\ g[l] = z /\ Fields(g, {k, l})
               /\ [g EXCEPT ![k] = f[k], ![l] = f[l]] = f
BY DEF Fields, IsFcn

LEMMA FieldsAreFcn ==
    ASSUME BadIsNoValue, NEW f, NEW names, Fields(f, names)
    PROVE  f # Bad /\ f # Null
BY FcnIsGood DEF Fields

LEMMA AllGood ==
    ASSUME NEW s, AllOrBad(s) # Bad
    PROVE  AllOrBad(s) = s /\ \A i \in DOMAIN s : s[i] # Bad
BY DEF AllOrBad

-----------------------------------------------------------------------------
(* Numbers, assets and channel states.                                     *)

LEMMA DecimalTrip ==
    ASSUME BadIsNoValue, NEW n, IsNumber(n)
    PROVE  ParseDecimal(Decimal(n)) = n /\ Opt(ParseDecimal, Decimal(n)) = n
<1>1. IsFcn(Decimal(n)) /\ Decimal(n).decimal = n
    BY DEF IsFcn, Decimal
<1>2. Decimal(n) # Null
    BY <1>1, FcnIsGood
<1> QED BY <1>1, <1>2 DEF ParseDecimal, IsNumber, Opt

LEMMA DecimalShape ==
    ASSUME NEW j, ParseDecimal(j) # Bad
    PROVE  IsNumber(ParseDecimal(j))
BY DEF ParseDecimal, IsNumber

LEMMA DecimalsTrip ==
    ASSUME BadIsNoValue, NEW row, AreNumbers(row)
    PROVE  Parsed(Decimals(row)) = row /\ row # Bad
<1> DEFINE back == Each(ParseDecimal, Decimals(row))
<1>1. back = [i \in DOMAIN row |-> ParseDecimal(Decimal(row[i]))]
    BY DEF Each, Decimals
<1>2. back = row
    BY <1>1, DecimalTrip DEF AreNumbers, IsFcn
<1> HIDE DEF back
<1>3. AllOrBad(back) = row
    BY <1>2 DEF AllOrBad, AreNumbers, IsNumber
<1> QED BY <1>3, FcnIsGood DEF Parsed, back, AreNumbers

LEMMA DecimalsShape ==
    ASSUME NEW j, Parsed(j) # Bad
    PROVE  AreNumbers(Parsed(j))
<1> DEFINE row == Each(ParseDecimal, j)
<1>1. row = [i \in DOMAIN j |-> ParseDecimal(j[i])]
    BY DEF Each
<1>2. Parsed(j) = row /\ \A i \in DOMAIN row : row[i] # Bad
    BY AllGood DEF Parsed
<1> HIDE DEF row
<1>3. \A i \in DOMAIN row : IsNumber(row[i])
    BY <1>1, <1>2, DecimalShape
<1> QED BY <1>1, <1>2, <1>3 DEF AreNumbers, IsFcn

LEMMA AssetTrip ==
    ASSUME BadIsNoValue, NEW a, IsAsset(a)
    PROVE  UnmarshalAsset(MarshalAsset(a)) = a /\ IsFcn(a)
<1>1. CASE a.assetType = "Solana"
  <2>1. a = [assetType |-> "Solana", mint |-> a.mint]
      BY <1>1 DEF IsAsset
  <2>2. MarshalAsset(a).asset = [assetType |-> "Solana", mint |-> a.mint]
      BY <1>1 DEF MarshalAsset, MarshalSolanaAsset
  <2>3. UnmarshalAsset(MarshalAsset(a)) = [assetType |-> "Solana", mint |-> a.mint]
      BY <2>2 DEF UnmarshalAsset, UnmarshalSolanaAsset
  <2> QED BY <2>1, <2>3 DEF IsFcn
<1>2. CASE a.assetType # "Solana"
  <2> DEFINE e == [assetType |-> "Ethereum", assetHolder |-> a.assetHolder,
                   chainID |-> a.chainID]
             j == [assetType |-> "Ethereum", assetHolder |-> Hex(a.assetHolder),
                   chainID |-> Decimal(a.chainID)]
  <2>1. a = e /\ IsNumber(a.chainID)
      BY <1>2 DEF IsAsset
  <2>2. a.assetType = "Ethereum"
      BY <2>1
  <2>3. MarshalAsset(a).asset = j
      BY <2>2 DEF MarshalAsset, MarshalEthereumAsset
  <2>4. ParseDecimal(j.chainID) = a.chainID /\ a.chainID # Bad /\ j.assetHolder.hex = a.assetHolder
      BY <2>1, DecimalTrip DEF IsNumber, Hex
  <2>5. j.assetType = "Ethereum"
      OBVIOUS
  <2> HIDE DEF j
  <2>6. UnmarshalAsset(MarshalAsset(a)) = e
      BY <2>3, <2>4, <2>5 DEF UnmarshalAsset, UnmarshalEthereumAsset, IfGood
  <2> QED BY <2>1, <2>6 DEF IsFcn
<1> QED BY <1>1, <1>2

LEMMA AssetShape ==
    ASSUME NEW j, UnmarshalAsset(j) # Bad
    PROVE  IsAsset(UnmarshalAsset(j))
<1> DEFINE a == UnmarshalAsset(j)
<1>1. CASE j.asset.assetType = "Ethereum"
  <2> DEFINE id == ParseDecimal(j.asset.chainID)
  <2>1. id # Bad /\ a = [assetType |-> "Ethereum", assetHolder |-> j.asset.assetHolder.hex,
                         chainID |-> id]
      BY <1>1 DEF UnmarshalAsset, UnmarshalEthereumAsset, IfGood
  <2>2. IsNumber(id)
      BY <2>1, DecimalShape
  <2> HIDE DEF a, id
  <2> QED BY <2>1, <2>2 DEF IsAsset, a
<1>2. CASE j.asset.assetType = "Solana"
  <2>1. a = [assetType |-> "Solana", mint |-> j.asset.mint]
      BY <1>2 DEF UnmarshalAsset, UnmarshalSolanaAsset
  <2> HIDE DEF a
  <2> QED BY <2>1 DEF IsAsset, a
<1> QED BY <1>1, <1>2 DEF UnmarshalAsset

LEMMA AssetsTrip ==
    ASSUME BadIsNoValue, NEW as, IsFcn(as), \A i \in DOMAIN as : IsAsset(as[i])
    PROVE  AllOrBad(Each(UnmarshalAsset, Each(MarshalAsset, as))) = as
<1>1. Each(UnmarshalAsset, Each(MarshalAsset, as)) = as
    BY AssetTrip DEF Each, IsFcn
<1>2. \A i \in DOMAIN as : as[i] # Bad
    BY AssetTrip, FcnIsGood
<1> QED BY <1>1, <1>2 DEF AllOrBad

LEMMA AssetsShape ==
    ASSUME NEW js, AllOrBad(Each(UnmarshalAsset, js)) # Bad
    PROVE  LET as == AllOrBad(Each(UnmarshalAsset, js))
           IN  IsFcn(as) /\ \A i \in DOMAIN as : IsAsset(as[i])
<1> DEFINE as == Each(UnmarshalAsset, js)
<1>1. AllOrBad(as) = as /\ \A i \in DOMAIN as : as[i] # Bad
    BY AllGood
<1>2. as = [i \in DOMAIN js |-> UnmarshalAsset(js[i])]
    BY DEF Each
<1> HIDE DEF as
<1>3. \A i \in DOMAIN as : IsAsset(as[i])
    BY <1>1, <1>2, AssetShape
<1> QED BY <1>1, <1>2, <1>3 DEF as, IsFcn

IsChannelState(c) ==
    /\ c = [assets |-> c.assets, backends |-> c.backends, balance |-> c.balance,
            peerBalance |-> c.peerBalance, isFinal |-> c.isFinal]
    /\ IsFcn(c.assets) /\ \A i \in DOMAIN c.assets : IsAsset(c.assets[i])
    /\ AreNumbers(c.balance) /\ AreNumbers(c.peerBalance)

LEMMA StateTrip ==
    ASSUME BadIsNoValue, NEW c, IsChannelState(c)
    PROVE  UnmarshalChannelState(MarshalChannelState(c)) = c /\ c # Bad
<1> DEFINE j == MarshalChannelState(c)
<1>1. /\ j.assets = Each(MarshalAsset, c.assets) /\ j.backends = c.backends
      /\ j.balance = Decimals(c.balance) /\ j.peerBalance = Decimals(c.peerBalance)
      /\ j.isFinal = c.isFinal
    BY DEF MarshalChannelState
<1>2. AllOrBad(Each(UnmarshalAsset, j.assets)) = c.assets /\ c.assets # Bad
    BY <1>1, AssetsTrip, FcnIsGood DEF IsChannelState
<1>3. /\ Parsed(j.balance) = c.balance /\ Parsed(j.peerBalance) = c.peerBalance
      /\ c.balance # Bad /\ c.peerBalance # Bad
    BY <1>1, DecimalsTrip DEF IsChannelState
<1> HIDE DEF j
<1>4. UnmarshalChannelState(j) =
          [assets |-> c.assets, backends |-> c.backends, balance |-> c.balance,
           peerBalance |-> c.peerBalance, isFinal |-> c.isFinal]
    BY <1>1, <1>2, <1>3 DEF UnmarshalChannelState, IfGood
<1>5. IsFcn(c)
    BY DEF IsChannelState, IsFcn
<1> QED BY <1>4, <1>5, FcnIsGood DEF j, IsChannelState

LEMMA StateShape ==
    ASSUME NEW j, UnmarshalChannelState(j) # Bad
    PROVE  IsChannelState(UnmarshalChannelState(j))
<1> DEFINE as   == AllOrBad(Each(UnmarshalAsset, j.assets))
           my   == Parsed(j.balance)
           peer == Parsed(j.peerBalance)
           c    == [assets |-> as, backends |-> j.backends, balance |-> my,
                    peerBalance |-> peer, isFinal |-> j.isFinal]
<1>1. as # Bad /\ my # Bad /\ peer # Bad /\ UnmarshalChannelState(j) = c
    BY DEF UnmarshalChannelState, IfGood
<1>2. IsFcn(as) /\ \A i \in DOMAIN as : IsAsset(as[i])
    BY <1>1, AssetsShape
<1>3. AreNumbers(my) /\ AreNumbers(peer)
    BY <1>1, DecimalsShape
<1> HIDE DEF as, my, peer
<1>4. /\ c.assets = as /\ c.balance = my /\ c.backends = j.backends
      /\ c.peerBalance = peer /\ c.isFinal = j.isFinal
    OBVIOUS
<1>5. c = [assets |-> c.assets, backends |-> c.backends, balance |-> c.balance,
            peerBalance |-> c.peerBalance, isFinal |-> c.isFinal]
    OBVIOUS
<1> HIDE DEF c
<1> QED BY <1>1, <1>2, <1>3, <1>4, <1>5 DEF IsChannelState

-----------------------------------------------------------------------------
(* Orders and lists of orders, questions, time-outs and configurations.    *)

(* Two fields that hold assets.                                            *)
HasAssets(b, x, y) == Fields(b, {x, y}) /\ IsAsset(b[x]) /\ IsAsset(b[y])

LEMMA PairTrip ==
    ASSUME BadIsNoValue, NEW b, NEW x, NEW y, x # y, HasAssets(b, x, y)
    PROVE  LET j == MarshalAssets(b, x, y)
           IN  Fields(j, {x, y}) /\ UnmarshalAssets(j, x, y) = b /\ b # Bad
<1> DEFINE jx == MarshalAsset(b[x])
           jy == MarshalAsset(b[y])
           j  == [b EXCEPT ![x] = jx, ![y] = jy]
<1>1. UnmarshalAsset(jx) = b[x] /\ UnmarshalAsset(jy) = b[y] /\ b[x] # Bad /\ b[y] # Bad
    BY AssetTrip, FcnIsGood DEF HasAssets
<1>2. MarshalAssets(b, x, y) = j
    BY DEF MarshalAssets, HasAssets
<1> HIDE DEF jx, jy
<1>3. j[x] = jx /\ j[y] = jy /\ Fields(j, {x, y}) /\ [j EXCEPT ![x] = b[x], ![y] = b[y]] = b
    BY TwoBack DEF HasAssets
<1>4. b # Bad
    BY FieldsAreFcn DEF HasAssets
<1> HIDE DEF j
<1> QED BY <1>1, <1>2, <1>3, <1>4 DEF UnmarshalAssets, IfGood

LEMMA PairShape ==
    ASSUME NEW j, NEW x, NEW y, x # y, Fields(j, {x, y}), UnmarshalAssets(j, x, y) # Bad
    PROVE  HasAssets(UnmarshalAssets(j, x, y), x, y)
<1> DEFINE ax == UnmarshalAsset(j[x])
           ay == UnmarshalAsset(j[y])
           b  == [j EXCEPT ![x] = ax, ![y] = ay]
<1>1. ax # Bad /\ ay # Bad /\ UnmarshalAssets(j, x, y) = b
    BY DEF UnmarshalAssets, IfGood
<1>2. IsAsset(ax) /\ IsAsset(ay)
    BY <1>1, AssetShape
<1> HIDE DEF ax, ay
<1>3. b[x] = ax /\ b[y] = ay /\ Fields(b, {x, y})
    BY DEF Fields, IsFcn
<1> QED BY <1>1, <1>2, <1>3 DEF HasAssets

LEMMA OrderTrip ==
    ASSUME BadIsNoValue, NEW o, IsOrder(o)
    PROVE  /\ Fields(MarshalOrder(o), {"base", "quote"})
           /\ UnmarshalOrder(MarshalOrder(o)) = o /\ o # Bad
<1>1. HasAssets(o, "base", "quote")
    BY DEF IsOrder, HasAssets
<1> QED BY <1>1, PairTrip DEF MarshalOrder, UnmarshalOrder

LEMMA OrderShape ==
    ASSUME BadIsNoValue, NEW j, Fields(j, {"base", "quote"}), UnmarshalOrder(j) # Bad
    PROVE  IsOrder(UnmarshalOrder(j))
<1> DEFINE o == UnmarshalOrder(j)
<1>1. HasAssets(o, "base", "quote")
    BY PairShape DEF UnmarshalOrder
<1> HIDE DEF o
<1>2. o.base # Null /\ o.quote # Null
    BY <1>1, AssetTrip, FcnIsGood DEF HasAssets
<1> QED BY <1>1, <1>2 DEF HasAssets, IsOrder, o

AreOrders(s) == IsFcn(s) /\ \A i \in DOMAIN s : IsOrder(s[i])

LEMMA OrdersTrip ==
    ASSUME BadIsNoValue, NEW s, AreOrders(s)
    PROVE  AllOrBad(Each(UnmarshalOrder, Each(MarshalOrder, s))) = s /\ s # Bad
<1>1. Each(UnmarshalOrder, Each(MarshalOrder, s)) = s
    BY OrderTrip DEF Each, IsFcn, AreOrders
<1>2. \A i \in DOMAIN s : s[i] # Bad
    BY OrderTrip DEF AreOrders
<1> QED BY <1>1, <1>2, FcnIsGood DEF AllOrBad, AreOrders

LEMMA OrdersShape ==
    ASSUME BadIsNoValue, NEW js, \A o \in Values(js) : Fields(o, {"base", "quote"}),
           AllOrBad(Each(UnmarshalOrder, js)) # Bad
    PROVE  AreOrders(AllOrBad(Each(UnmarshalOrder, js)))
<1> DEFINE s == Each(UnmarshalOrder, js)
<1>1. AllOrBad(s) = s /\ \A i \in DOMAIN s : s[i] # Bad
    BY AllGood
<1>2. s = [i \in DOMAIN js |-> UnmarshalOrder(js[i])]
    BY DEF Each
<1>3. \A i \in DOMAIN js : Fields(js[i], {"base", "quote"})
    BY DEF Values
<1> HIDE DEF s
<1>4. \A i \in DOMAIN s : IsOrder(s[i])
    BY <1>1, <1>2, <1>3, OrderShape
<1> QED BY <1>1, <1>2, <1>4 DEF s, IsFcn, AreOrders

(* Two fields that hold lists of orders.                                   *)
HasRows(b, x, y) == Fields(b, {x, y}) /\ AreOrders(b[x]) /\ AreOrders(b[y])

LEMMA RowsTrip ==
    ASSUME BadIsNoValue, NEW b, NEW x, NEW y, x # y, HasRows(b, x, y)
    PROVE  LET j == MarshalRows(b, x, y)
           IN  Fields(j, {x, y}) /\ UnmarshalRows(j, x, y) = b /\ b # Bad
<1> DEFINE jx == Each(MarshalOrder, b[x])
           jy == Each(MarshalOrder, b[y])
           j  == [b EXCEPT ![x] = jx, ![y] = jy]
<1>1. /\ AllOrBad(Each(UnmarshalOrder, jx)) = b[x] /\ AllOrBad(Each(UnmarshalOrder, jy)) = b[y]
      /\ b[x] # Bad /\ b[y] # Bad
    BY OrdersTrip DEF HasRows
<1>2. MarshalRows(b, x, y) = j
    BY DEF MarshalRows, HasRows
<1> HIDE DEF jx, jy
<1>3. j[x] = jx /\ j[y] = jy /\ Fields(j, {x, y}) /\ [j EXCEPT ![x] = b[x], ![y] = b[y]] = b
    BY TwoBack DEF HasRows
<1>4. b # Bad
    BY FieldsAreFcn DEF HasRows
<1> HIDE DEF j
<1> QED BY <1>1, <1>2, <1>3, <1>4 DEF UnmarshalRows, IfGood

LEMMA RowsShape ==
    ASSUME BadIsNoValue, NEW j, NEW x, NEW y, x # y, IsRowsJSON(j, x, y),
           UnmarshalRows(j, x, y) # Bad
    PROVE  HasRows(UnmarshalRows(j, x, y), x, y)
<1> DEFINE rx == AllOrBad(Each(UnmarshalOrder, j[x]))
           ry == AllOrBad(Each(UnmarshalOrder, j[y]))
           b  == [j EXCEPT ![x] = rx, ![y] = ry]
<1>1. rx # Bad /\ ry # Bad /\ UnmarshalRows(j, x, y) = b
    BY DEF UnmarshalRows, IfGood
<1>2. AreOrders(rx) /\ AreOrders(ry)
    BY <1>1, OrdersShape DEF IsRowsJSON
<1> HIDE DEF rx, ry
<1>3. b[x] = rx /\ b[y] = ry /\ Fields(b, {x, y})
    BY DEF IsRowsJSON, Fields, IsFcn
<1> QED BY <1>1, <1>2, <1>3 DEF HasRows

(* A book's snapshot or delta, or both or none of them.                    *)
IsBook(b) ==
    /\ Fields(b, {"snapshot", "delta"})
    /\ b.snapshot = Null \/ HasRows(b.snapshot, "bids", "asks")
    /\ b.delta = Null \/ HasRows(b.delta, "added", "updated")

LEMMA BookTrip ==
    ASSUME BadIsNoValue, NEW b, IsBook(b)
    PROVE  LET j == MarshalGetOrderBookResponse(b)
           IN  /\ Fields(j, {"snapshot", "delta"})
               /\ UnmarshalGetOrderBookResponse(j) = b /\ b # Bad
<1> DEFINE js == Opt(MarshalSnapshot, b.snapshot)
           jd == Opt(MarshalDelta, b.delta)
           j  == [b EXCEPT !["snapshot"] = js, !["delta"] = jd]
<1>1. Opt(UnmarshalSnapshot, js) = b.snapshot /\ b.snapshot # Bad
  <2>1. CASE b.snapshot = Null
      BY <2>1 DEF Opt, BadIsNoValue
  <2>2. CASE b.snapshot # Null
    <3>1. HasRows(b.snapshot, "bids", "asks") /\ js = MarshalRows(b.snapshot, "bids", "asks")
        BY <2>2 DEF IsBook, Opt, MarshalSnapshot
    <3>2. UnmarshalRows(js, "bids", "asks") = b.snapshot /\ js # Null /\ b.snapshot # Bad
        BY <3>1, RowsTrip, FieldsAreFcn
    <3> HIDE DEF js
    <3> QED BY <3>2 DEF Opt, UnmarshalSnapshot
  <2> QED BY <2>1, <2>2
<1>2. Opt(UnmarshalDelta, jd) = b.delta /\ b.delta # Bad
  <2>1. CASE b.delta = Null
      BY <2>1 DEF Opt, BadIsNoValue
  <2>2. CASE b.delta # Null
    <3>1. HasRows(b.delta, "added", "updated") /\ jd = MarshalRows(b.delta, "added", "updated")
        BY <2>2 DEF IsBook, Opt, MarshalDelta
    <3>2. UnmarshalRows(jd, "added", "updated") = b.delta /\ jd # Null /\ b.delta # Bad
        BY <3>1, RowsTrip, FieldsAreFcn
    <3> HIDE DEF jd
    <3> QED BY <3>2 DEF Opt, UnmarshalDelta
  <2> QED BY <2>1, <2>2
<1>3. MarshalGetOrderBookResponse(b) = j
    BY DEF MarshalGetOrderBookResponse
<1> HIDE DEF js, jd
<1>4. /\ j["snapshot"] = js /\ j["delta"] = jd /\ Fields(j, {"snapshot", "delta"})
      /\ [j EXCEPT !["snapshot"] = b["snapshot"], !["delta"] = b["delta"]] = b
    BY DEF IsBook, Fields, IsFcn
<1>5. b # Bad
    BY FieldsAreFcn DEF IsBook
<1> HIDE DEF j
<1> QED BY <1>1, <1>2, <1>3, <1>4, <1>5 DEF UnmarshalGetOrderBookResponse, IfGood

LEMMA BookShape ==
    ASSUME BadIsNoValue, NEW j, IsBodyJSON("GetOrderBookResponse", j),
           UnmarshalGetOrderBookResponse(j) # Bad
    PROVE  IsBook(UnmarshalGetOrderBookResponse(j))
<1> DEFINE s == Opt(UnmarshalSnapshot, j.snapshot)
           d == Opt(UnmarshalDelta, j.delta)
           b == [j EXCEPT !["snapshot"] = s, !["delta"] = d]
<1>1. s # Bad /\ d # Bad /\ UnmarshalGetOrderBookResponse(j) = b
    BY DEF UnmarshalGetOrderBookResponse, IfGood
<1>2. /\ Fields(j, {"snapshot", "delta"})
      /\ j.snapshot # Null => IsRowsJSON(j.snapshot, "bids", "asks")
      /\ j.delta # Null => IsRowsJSON(j.delta, "added", "updated")
    BY DEF IsBodyJSON, WithState, Signed
<1>3. s = Null \/ HasRows(s, "bids", "asks")
    BY <1>1, <1>2, RowsShape DEF Opt, UnmarshalSnapshot
<1>4. d = Null \/ HasRows(d, "added", "updated")
    BY <1>1, <1>2, RowsShape DEF Opt, UnmarshalDelta
<1> HIDE DEF s, d
<1>5. b["snapshot"] = s /\ b["delta"] = d /\ Fields(b, {"snapshot", "delta"})
    BY <1>2 DEF Fields, IsFcn
<1> QED BY <1>1, <1>3, <1>4, <1>5 DEF IsBook

HasAsset(b) == Fields(b, {"asset"}) /\ IsAsset(b.asset)

LEMMA AssetFieldTrip ==
    ASSUME BadIsNoValue, NEW b, HasAsset(b)
    PROVE  /\ Fields(MarshalAssetField(b), {"asset"})
           /\ UnmarshalAssetField(MarshalAssetField(b)) = b /\ b # Bad
<1> DEFINE a == MarshalAsset(b.asset)
           j == [b EXCEPT !["asset"] = a]
<1>1. MarshalAssetField(b) = j /\ UnmarshalAsset(a) = b.asset /\ b.asset # Bad
    BY AssetTrip, FcnIsGood DEF MarshalAssetField, HasAsset
<1> HIDE DEF a
<1>2. j["asset"] = a /\ [j EXCEPT !["asset"] = b["asset"]] = b /\ Fields(j, {"asset"})
    BY DEF HasAsset, Fields, IsFcn
<1> HIDE DEF j
<1> QED BY <1>1, <1>2, FieldsAreFcn DEF UnmarshalAssetField, IfGood, HasAsset

LEMMA AssetFieldShape ==
    ASSUME NEW j, Fields(j, {"asset"}), UnmarshalAssetField(j) # Bad
    PROVE  HasAsset(UnmarshalAssetField(j))
<1> DEFINE a == UnmarshalAsset(j.asset)
           b == [j EXCEPT !["asset"] = a]
<1>1. a # Bad /\ UnmarshalAssetField(j) = b
    BY DEF UnmarshalAssetField, IfGood
<1>2. IsAsset(a)
    BY <1>1, AssetShape
<1> HIDE DEF a
<1>3. b["asset"] = a /\ Fields(b, {"asset"})
    BY DEF Fields, IsFcn
<1> QED BY <1>1, <1>2, <1>3 DEF HasAsset

TypeNames == {EthereumTypeNames, SolanaTypeNames}

LEMMA NamesTrip ==
    ASSUME BadIsNoValue, NEW names \in TypeNames, NEW n \in {0, 1}
    PROVE  ReadName(names, names[n + 1]) = n /\ n # Bad
<1>1. names[1] # names[2] /\ DOMAIN names = {1, 2}
    BY DEF TypeNames, EthereumTypeNames, SolanaTypeNames
<1>2. ASSUME NEW i \in {1, 2} PROVE ParseName(names, names[i]) = i - 1
    BY <1>1, <1>2 DEF ParseName
<1>3. names[1] # Null /\ names[2] # Null
    BY <1>1 DEF TypeNames, BadIsNoValue
<1> QED BY <1>1, <1>2, <1>3 DEF ReadName, BadIsNoValue

LEMMA NamesShape ==
    ASSUME NEW names \in TypeNames, NEW s, ReadName(names, s) # Bad
    PROVE  ReadName(names, s) \in {0, 1}
<1>1. DOMAIN names = {1, 2}
    BY DEF TypeNames, EthereumTypeNames, SolanaTypeNames
<1>2. CASE s # Null
  <2>1. ReadName(names, s) = ParseName(names, s) /\ \E i \in {1, 2} : names[i] = s
      BY <1>1, <1>2 DEF ReadName, ParseName
  <2>2. PICK i \in {1, 2} : ParseName(names, s) = i - 1
      BY <1>1, <2>1 DEF ParseName
  <2> QED BY <2>1, <2>2
<1> QED BY <1>2 DEF ReadName

LEMMA TimeoutTrip ==
    ASSUME BadIsNoValue, NEW n \in 0 .. 3
    PROVE  ReadName(TimeoutNames, TimeoutNames[n + 1]) = n /\ n # Bad
<1>1. TimeoutNames[n + 1] # Null
  <2>1. n + 1 \in DOMAIN TimeoutNames
      BY DEF TimeoutNames
  <2> QED BY <2>1 DEF BadIsNoValue
<1>2. ParseName(TimeoutNames, TimeoutNames[n + 1]) = n
    BY DEF ParseName, TimeoutNames
<1> QED BY <1>1, <1>2 DEF ReadName, BadIsNoValue

LEMMA TimeoutShape ==
    ASSUME NEW s, ReadName(TimeoutNames, s) # Bad
    PROVE  ReadName(TimeoutNames, s) \in 0 .. 3
<1>1. DOMAIN TimeoutNames = 1 .. 4
    BY DEF TimeoutNames
<1>2. CASE s # Null
  <2>1. /\ ReadName(TimeoutNames, s) = ParseName(TimeoutNames, s)
        /\ \E i \in 1 .. 4 : TimeoutNames[i] = s
      BY <1>1, <1>2 DEF ReadName, ParseName
  <2>2. PICK i \in 1 .. 4 : ParseName(TimeoutNames, s) = i - 1
      BY <1>1, <2>1 DEF ParseName
  <2> QED BY <2>1, <2>2
<1> QED BY <1>2 DEF ReadName

IsConfig(c) == Fields(c, {"type", "chainID"}) /\ c.type \in {0, 1} /\ c.chainID # Bad

LEMMA ConfigTrip ==
    ASSUME BadIsNoValue, NEW names \in TypeNames, NEW c, IsConfig(c), c.chainID # Null
    PROVE  UnmarshalConfig(names, MarshalConfig(names, c)) = c /\ c # Bad
<1> DEFINE name == names[c.type + 1]
           id   == Decimal(c.chainID)
           j    == [c EXCEPT !["type"] = name, !["chainID"] = id]
<1>1. MarshalConfig(names, c) = j
    BY DEF MarshalConfig
<1>2. ReadName(names, name) = c.type /\ c.type # Bad
    BY NamesTrip DEF IsConfig
<1>3. Opt(ParseDecimal, id) = c.chainID /\ c.chainID # Bad
    BY DecimalTrip DEF IsConfig, IsNumber
<1> HIDE DEF name, id
<1>4. /\ j["type"] = name /\ j["chainID"] = id
      /\ [j EXCEPT !["type"] = c["type"], !["chainID"] = c["chainID"]] = c
    BY DEF IsConfig, Fields, IsFcn
<1> HIDE DEF j
<1> QED BY <1>1, <1>2, <1>3, <1>4, FieldsAreFcn DEF UnmarshalConfig, IfGood, IsConfig

LEMMA ConfigShape ==
    ASSUME NEW names \in TypeNames, NEW j, Fields(j, {"type", "chainID"}),
           UnmarshalConfig(names, j) # Bad
    PROVE  IsConfig(UnmarshalConfig(names, j))
<1> DEFINE n  == ReadName(names, j.type)
           id == Opt(ParseDecimal, j.chainID)
           c  == [j EXCEPT !["type"] = n, !["chainID"] = id]
<1>1. n # Bad /\ id # Bad /\ UnmarshalConfig(names, j) = c
    BY DEF UnmarshalConfig, IfGood
<1>2. n \in {0, 1}
    BY <1>1, NamesShape
<1> HIDE DEF n, id
<1>3. c["type"] = n /\ c["chainID"] = id /\ Fields(c, {"type", "chainID"})
    BY DEF Fields, IsFcn
<1> QED BY <1>1, <1>2, <1>3 DEF IsConfig

LEMMA ConfigsTrip ==
    ASSUME BadIsNoValue, NEW names \in TypeNames, NEW cs,
           \A c \in cs : IsConfig(c) /\ c.chainID # Null
    PROVE  /\ {UnmarshalConfig(names, j) : j \in {MarshalConfig(names, c) : c \in cs}} = cs
           /\ Bad \notin cs
BY ConfigTrip

-----------------------------------------------------------------------------
(* Signed states.                                                          *)

LEMMA AppTrip ==
    ASSUME BadIsNoValue, NEW app, IsApp(app), SerialiseApp(app) # Bad
    PROVE  DeserialiseApp(SerialiseApp(app)) = app /\ app # Bad
<1>1. CASE app.kind = "NoApp"
  <2>1. app = [kind |-> "NoApp"] /\ SerialiseApp(app).appType = "NoApp"
      BY <1>1 DEF IsApp, SerialiseApp
  <2>2. IsFcn(app)
      BY <2>1 DEF IsFcn
  <2> QED BY <2>1, <2>2, FcnIsGood DEF DeserialiseApp
<1>2. CASE app.kind = "MockApp"
  <2>1. app = [kind |-> "MockApp", def |-> app.def]
      BY <1>2 DEF IsApp
  <2>2. SerialiseApp(app) = [appType |-> "MockApp", def |-> app.def]
      BY <1>2 DEF SerialiseApp
  <2>3. IsFcn(app)
      BY <2>1 DEF IsFcn
  <2> QED BY <2>1, <2>2, <2>3, FcnIsGood DEF DeserialiseApp
<1> QED BY <1>1, <1>2 DEF SerialiseApp

LEMMA AppShape ==
    ASSUME BadIsNoValue, NEW j, DeserialiseApp(j) # Bad
    PROVE  IsApp(DeserialiseApp(j)) /\ SerialiseApp(DeserialiseApp(j)) # Bad
<1> DEFINE app == DeserialiseApp(j)
<1>1. app = [kind |-> "NoApp"] \/ app = [kind |-> "MockApp", def |-> j.def]
    BY DEF DeserialiseApp
<1> HIDE DEF app
<1>2. \/ SerialiseApp(app) = [appType |-> "NoApp"]
      \/ SerialiseApp(app) = [appType |-> "MockApp", def |-> app.def]
    BY <1>1 DEF SerialiseApp
<1>3. IsFcn(SerialiseApp(app))
    BY <1>2 DEF IsFcn
<1> QED BY <1>1, <1>3, FcnIsGood DEF app, IsApp

(* No backend in the parameters of a channel is one go-perun does not know.*)
LEMMA ParamsTrip ==
    ASSUME BadIsNoValue, NEW p, IsParams(p), SerialiseApp(p.app) # Bad
    PROVE  LET j == MarshalParams(p)
           IN  /\ UnmarshalParams(j) = p /\ p # Bad
               /\ \A i \in DOMAIN j.parts : DOMAIN j.parts[i] \subseteq Registered
<1> DEFINE j == MarshalParams(p)
<1>1. /\ j.id = ParamsID(p) /\ j.parts = Each(MarshalPart, p.parts)
      /\ j.app = SerialiseApp(p.app) /\ j.nonce = Decimal(p.nonce)
    BY DEF MarshalParams
<1>2. /\ DeserialiseApp(j.app) = p.app /\ p.app # Bad
      /\ ParseDecimal(j.nonce) = p.nonce /\ p.nonce # Bad
    BY <1>1, AppTrip, DecimalTrip DEF IsParams, IsNumber
<1>3. Each(UnmarshalPart, j.parts) = p.parts
  <2>1. ASSUME NEW part, IsPart(part) PROVE UnmarshalPart(MarshalPart(part)) = part
      BY <2>1 DEF IsPart, UnmarshalPart, MarshalPart, Base64
  <2>2. Each(UnmarshalPart, j.parts) =
            [i \in DOMAIN p.parts |-> UnmarshalPart(MarshalPart(p.parts[i]))]
      BY <1>1 DEF Each
  <2> QED BY <2>1, <2>2 DEF IsParams, IsFcn
<1>4. \A i \in DOMAIN j.parts : DOMAIN j.parts[i] \subseteq Registered
    BY <1>1 DEF Each, MarshalPart, IsParams, IsPart
<1> HIDE DEF j
<1>5. [parts |-> p.parts, app |-> p.app, nonce |-> p.nonce] = p
    BY DEF IsParams
<1>6. UnmarshalParams(j) = p
    BY <1>1, <1>2, <1>3, <1>5 DEF UnmarshalParams, IfGood
<1>7. IsFcn(p)
    BY <1>5 DEF IsFcn
<1> QED BY <1>4, <1>6, <1>7, FcnIsGood DEF j

LEMMA ParamsShape ==
    ASSUME BadIsNoValue, NEW j, UnmarshalParams(j) # Bad,
           \A i \in DOMAIN j.parts : DOMAIN j.parts[i] \subseteq Registered
    PROVE  LET p == UnmarshalParams(j) IN IsParams(p) /\ SerialiseApp(p.app) # Bad
<1> DEFINE app   == DeserialiseApp(j.app)
           nonce == ParseDecimal(j.nonce)
           p     == [parts |-> Each(UnmarshalPart, j.parts), app |-> app, nonce |-> nonce]
<1>1. UnmarshalParams(j) = p /\ app # Bad /\ nonce # Bad
    BY DEF UnmarshalParams, IfGood
<1>2. IsApp(app) /\ SerialiseApp(app) # Bad /\ IsNumber(nonce)
    BY <1>1, AppShape, DecimalShape
<1> HIDE DEF app, nonce
<1>3. /\ p.parts = Each(UnmarshalPart, j.parts) /\ p.app = app /\ p.nonce = nonce
      /\ p = [parts |-> p.parts, app |-> p.app, nonce |-> p.nonce]
    OBVIOUS
<1> HIDE DEF p
<1>4. IsFcn(p.parts) /\ DOMAIN p.parts = DOMAIN j.parts
    BY <1>3 DEF Each, IsFcn
<1>5. \A i \in DOMAIN p.parts : IsPart(p.parts[i])
  <2>1. ASSUME NEW part, DOMAIN part \subseteq Registered PROVE IsPart(UnmarshalPart(part))
      BY <2>1 DEF UnmarshalPart, IsPart
  <2> QED BY <1>3, <2>1 DEF Each
<1> QED BY <1>1, <1>2, <1>3, <1>4, <1>5 DEF IsParams

LEMMA LockedTrip ==
    ASSUME BadIsNoValue, NEW ls, IsFcn(ls),
           \A i \in DOMAIN ls : Fields(ls[i], {"bals"}) /\ AreNumbers(ls[i].bals)
    PROVE  AllOrBad(Each(UnmarshalLocked, Each(MarshalLocked, ls))) = ls /\ ls # Bad
<1>1. ASSUME NEW l, Fields(l, {"bals"}), AreNumbers(l.bals)
      PROVE  UnmarshalLocked(MarshalLocked(l)) = l /\ l # Bad
  <2> DEFINE row == Decimals(l.bals)
             j   == [l EXCEPT !["bals"] = row]
  <2>1. MarshalLocked(l) = j /\ Parsed(row) = l.bals /\ l.bals # Bad
      BY <1>1, DecimalsTrip DEF MarshalLocked
  <2> HIDE DEF row
  <2>2. j["bals"] = row /\ [j EXCEPT !["bals"] = l["bals"]] = l
      BY <1>1 DEF Fields, IsFcn
  <2> HIDE DEF j
  <2> QED BY <1>1, <2>1, <2>2, FieldsAreFcn DEF UnmarshalLocked, IfGood
<1>2. Each(UnmarshalLocked, Each(MarshalLocked, ls)) = ls
    BY <1>1 DEF Each, IsFcn
<1> QED BY <1>1, <1>2, FcnIsGood DEF AllOrBad

LEMMA LockedShape ==
    ASSUME NEW js, \A i \in DOMAIN js : Fields(js[i], {"bals"}),
           AllOrBad(Each(UnmarshalLocked, js)) # Bad
    PROVE  LET ls == AllOrBad(Each(UnmarshalLocked, js))
           IN  /\ IsFcn(ls)
               /\ \A i \in DOMAIN ls : Fields(ls[i], {"bals"}) /\ AreNumbers(ls[i].bals)
<1> DEFINE ls == Each(UnmarshalLocked, js)
<1>1. AllOrBad(ls) = ls /\ \A i \in DOMAIN ls : ls[i] # Bad
    BY AllGood
<1>2. ls = [i \in DOMAIN js |-> UnmarshalLocked(js[i])]
    BY DEF Each
<1>3. ASSUME NEW j, Fields(j, {"bals"}), UnmarshalLocked(j) # Bad
      PROVE  Fields(UnmarshalLocked(j), {"bals"}) /\ AreNumbers(UnmarshalLocked(j).bals)
  <2> DEFINE row == Parsed(j.bals)
             l   == [j EXCEPT !["bals"] = row]
  <2>1. row # Bad /\ UnmarshalLocked(j) = l
      BY <1>3 DEF UnmarshalLocked, IfGood
  <2>2. AreNumbers(row)
      BY <2>1, DecimalsShape
  <2> HIDE DEF row
  <2>3. l["bals"] = row /\ Fields(l, {"bals"})
      BY <1>3 DEF Fields, IsFcn
  <2> QED BY <2>1, <2>2, <2>3
<1> HIDE DEF ls
<1> QED BY <1>1, <1>2, <1>3 DEF ls, IsFcn

(* The rows of balances.                                                   *)
LEMMA BalancesTrip ==
    ASSUME BadIsNoValue, NEW rows, IsFcn(rows), \A i \in DOMAIN rows : AreNumbers(rows[i])
    PROVE  AllOrBad(Each(Parsed, Each(Decimals, rows))) = rows /\ rows # Bad
<1>1. Each(Parsed, Each(Decimals, rows)) = rows
    BY DecimalsTrip DEF Each, IsFcn
<1>2. \A i \in DOMAIN rows : rows[i] # Bad
    BY DecimalsTrip
<1> QED BY <1>1, <1>2, FcnIsGood DEF AllOrBad

LEMMA BalancesShape ==
    ASSUME NEW js, AllOrBad(Each(Parsed, js)) # Bad
    PROVE  LET rows == AllOrBad(Each(Parsed, js))
           IN  IsFcn(rows) /\ \A i \in DOMAIN rows : AreNumbers(rows[i])
<1> DEFINE rows == Each(Parsed, js)
<1>1. AllOrBad(rows) = rows /\ \A i \in DOMAIN rows : rows[i] # Bad
    BY AllGood
<1>2. rows = [i \in DOMAIN js |-> Parsed(js[i])]
    BY DEF Each
<1> HIDE DEF rows
<1> QED BY <1>1, <1>2, DecimalsShape DEF rows, IsFcn

StateFields == {"assets", "backends", "balances", "locked", "app", "data"}

(* Every asset finds its backend beside it, and no backend is left over.   *)
LEMMA SignedPartTrip ==
    ASSUME BadIsNoValue, NEW s, IsState(s), SerialiseApp(s.app) # Bad
    PROVE  LET j == MarshalState(s)
           IN  UnmarshalState(j) = s /\ s # Bad /\ ~StatePanics(j)
<1> DEFINE bytes == Each(AssetBytes, s.assets)
           rows  == Each(Decimals, s.balances)
           locks == Each(MarshalLocked, s.locked)
           app   == SerialiseApp(s.app)
           j     == [s EXCEPT !["assets"] = bytes, !["balances"] = rows,
                              !["locked"] = locks, !["app"] = app]
<1>1. Fields(s, StateFields) /\ s.data # Null
    BY DEF IsState, StateFields
<1>2. MarshalState(s) = j
    BY DEF MarshalState
<1>3. /\ s.assets = [i \in DOMAIN bytes |-> [backend |-> s.backends[i], id |-> bytes[i].base64]]
      /\ s.backends = [i \in DOMAIN bytes |-> s.backends[i]]
      /\ Values(s.backends) \subseteq Registered
    BY DEF IsState, Each, AssetBytes, Base64
<1>4. AllOrBad(Each(Parsed, rows)) = s.balances /\ s.balances # Bad
    BY BalancesTrip DEF IsState
<1>5. AllOrBad(Each(UnmarshalLocked, locks)) = s.locked /\ s.locked # Bad
    BY LockedTrip DEF IsState
<1>6. DeserialiseApp(app) = s.app /\ s.app # Bad
    BY AppTrip DEF IsState
<1> HIDE DEF bytes, rows, locks, app
<1>7. /\ j["assets"] = bytes /\ j["balances"] = rows /\ j["locked"] = locks /\ j["app"] = app
      /\ j["backends"] = s.backends /\ j["data"] = s.data
      /\ [j EXCEPT !["assets"] = s["assets"], !["backends"] = s["backends"],
                   !["balances"] = s["balances"], !["locked"] = s["locked"],
                   !["app"] = s["app"]] = s
    BY <1>1 DEF Fields, IsFcn, StateFields
<1> HIDE DEF j
<1>8. StateBackends(j) = s.backends
    BY <1>3, <1>7 DEF StateBackends
<1>9. [i \in DOMAIN bytes |-> [backend |-> s.backends[i], id |-> bytes[i].base64]] = s.assets
    BY <1>3
<1>10. UnmarshalState(j) = s
  <2> DEFINE backends == StateBackends(j)
             assets   == [i \in DOMAIN j.assets |->
                             [backend |-> backends[i], id |-> j.assets[i].base64]]
             balances == AllOrBad(Each(Parsed, j.balances))
             locked   == AllOrBad(Each(UnmarshalLocked, j.locked))
             appBack  == DeserialiseApp(j.app)
             back     == [j EXCEPT !["assets"] = assets, !["backends"] = backends,
                                   !["balances"] = balances, !["locked"] = locked,
                                   !["app"] = appBack]
  <2>1. UnmarshalState(j) =
            IF j.data = Null THEN Bad
            ELSE IfGood(appBack, IfGood(balances, IfGood(locked, back)))
      BY DEF UnmarshalState
  <2>2. /\ backends = s["backends"] /\ balances = s["balances"]
        /\ locked = s["locked"] /\ appBack = s["app"]
      BY <1>4, <1>5, <1>6, <1>7, <1>8
  <2>3. assets = s["assets"]
      BY <1>7, <1>8, <1>9
  <2>4. back = s
      BY <1>7, <2>2, <2>3
  <2>5. j.data # Null /\ appBack # Bad /\ balances # Bad /\ locked # Bad
      BY <1>1, <1>4, <1>5, <1>6, <1>7
  <2> HIDE DEF backends, assets, balances, locked, appBack, back
  <2> QED BY <2>1, <2>4, <2>5 DEF IfGood
<1>11. ~StatePanics(j)
    BY <1>3, <1>7, <1>8 DEF StatePanics
<1> QED BY <1>1, <1>2, <1>10, <1>11, FieldsAreFcn

LEMMA SignedPartShape ==
    ASSUME BadIsNoValue, NEW j, IsStateJSON(j), UnmarshalState(j) # Bad, ~StatePanics(j)
    PROVE  LET s == UnmarshalState(j) IN IsState(s) /\ SerialiseApp(s.app) # Bad
<1> DEFINE app      == DeserialiseApp(j.app)
           backends == StateBackends(j)
           assets   == [i \in DOMAIN j.assets |->
                           [backend |-> backends[i], id |-> j.assets[i].base64]]
           rows     == AllOrBad(Each(Parsed, j.balances))
           locks    == AllOrBad(Each(UnmarshalLocked, j.locked))
           s        == [j EXCEPT !["assets"] = assets, !["backends"] = backends,
                                 !["balances"] = rows, !["locked"] = locks, !["app"] = app]
<1>1. Fields(j, StateFields)
    BY DEF IsStateJSON, StateFields
<1>2. /\ app # Bad /\ rows # Bad /\ locks # Bad /\ j.data # Null
      /\ UnmarshalState(j) = s
    BY DEF UnmarshalState, IfGood
<1>3. IsApp(app) /\ SerialiseApp(app) # Bad
    BY <1>2, AppShape
<1>4. IsFcn(rows) /\ \A i \in DOMAIN rows : AreNumbers(rows[i])
    BY <1>2, BalancesShape
<1>5. /\ IsFcn(locks)
      /\ \A i \in DOMAIN locks : Fields(locks[i], {"bals"}) /\ AreNumbers(locks[i].bals)
    BY <1>2, LockedShape DEF IsStateJSON
<1>6. Values(backends) \subseteq Registered
    BY <1>2 DEF StatePanics
<1>7. /\ assets = [i \in DOMAIN assets |-> [backend |-> backends[i], id |-> assets[i].id]]
      /\ backends = [i \in DOMAIN assets |-> backends[i]]
    BY DEF StateBackends
<1> HIDE DEF app, backends, assets, rows, locks
<1>8. /\ s["assets"] = assets /\ s["balances"] = rows /\ s["locked"] = locks
      /\ s["app"] = app /\ s["backends"] = backends /\ s["data"] = j["data"]
      /\ Fields(s, StateFields)
    BY <1>1 DEF Fields, IsFcn, StateFields
<1> HIDE DEF s
<1> QED BY <1>2, <1>3, <1>4, <1>5, <1>6, <1>7, <1>8 DEF IsState, StateFields

LEMMA SignedTrip ==
    ASSUME BadIsNoValue, NEW s, IsSignedState(s), MarshalSignedState(s) # Bad
    PROVE  LET j == MarshalSignedState(s)
           IN  UnmarshalSignedState(j) = s /\ s # Bad /\ ~SignedStatePanics(j)
<1> DEFINE j == MarshalSignedState(s)
<1>1. SerialiseApp(s.params.app) # Bad /\ SerialiseApp(s.state.app) # Bad
    BY DEF MarshalSignedState
<1>2. /\ j.params = MarshalParams(s.params) /\ j.state = MarshalState(s.state)
      /\ j.sigs = s.sigs
    BY <1>1 DEF MarshalSignedState
<1> HIDE DEF j
<1>3. /\ UnmarshalParams(j.params) = s.params /\ s.params # Bad
      /\ \A i \in DOMAIN j.params.parts : DOMAIN j.params.parts[i] \subseteq Registered
    BY <1>1, <1>2, ParamsTrip DEF IsSignedState
<1>4. UnmarshalState(j.state) = s.state /\ s.state # Bad /\ ~StatePanics(j.state)
    BY <1>1, <1>2, SignedPartTrip DEF IsSignedState
<1>5. s = [params |-> s.params, state |-> s.state, sigs |-> s.sigs]
    BY DEF IsSignedState
<1>6. IsFcn(s)
    BY <1>5 DEF IsFcn
<1>7. UnmarshalSignedState(j) = s
    BY <1>2, <1>3, <1>4, <1>5 DEF UnmarshalSignedState, IfGood
<1>8. ~SignedStatePanics(j)
    BY <1>3, <1>4 DEF SignedStatePanics
<1> QED BY <1>6, <1>7, <1>8, FcnIsGood DEF j

LEMMA SignedShape ==
    ASSUME BadIsNoValue, NEW j, IsStateJSON(j.state), UnmarshalSignedState(j) # Bad,
           ~SignedStatePanics(j)
    PROVE  LET s == UnmarshalSignedState(j)
           IN  IsSignedState(s) /\ MarshalSignedState(s) # Bad
<1> DEFINE params == UnmarshalParams(j.params)
           state  == UnmarshalState(j.state)
           s      == [params |-> params, state |-> state, sigs |-> j.sigs]
<1>1. params # Bad /\ state # Bad /\ UnmarshalSignedState(j) = s
    BY DEF UnmarshalSignedState, IfGood
<1>2. /\ ~StatePanics(j.state)
      /\ \A i \in DOMAIN j.params.parts : DOMAIN j.params.parts[i] \subseteq Registered
    BY <1>1 DEF SignedStatePanics
<1>3. /\ IsParams(params) /\ SerialiseApp(params.app) # Bad
      /\ IsState(state) /\ SerialiseApp(state.app) # Bad
    BY <1>1, <1>2, ParamsShape, SignedPartShape
<1> HIDE DEF params, state
<1>4. IsSignedState(s)
    BY <1>3 DEF IsSignedState
<1>5. MarshalSignedState(s) = [params |-> MarshalParams(params), state |-> MarshalState(state),
                               sigs |-> j.sigs]
    BY <1>3 DEF MarshalSignedState
<1>6. IsFcn(MarshalSignedState(s))
    BY <1>5 DEF IsFcn
<1> QED BY <1>1, <1>4, <1>6, FcnIsGood

-----------------------------------------------------------------------------
(* Messages.                                                               *)

(* The bodies a message of each type can have.                             *)
IsBody(type, b) ==
    CASE type \in WithState   -> Fields(b, {"state"}) /\ IsChannelState(b.state)
      [] type \in Signed      -> IsSignedState(b)
      [] type = "CreateOrder" ->
            Fields(b, {"order"}) /\ (IsOrder(b.order) \/ b.order = ZeroOrder)
      [] type = "OrderBookSnapshot"    -> HasRows(b, "bids", "asks")
      [] type = "OrderBookDelta"       -> HasRows(b, "added", "updated")
      [] type = "GetOrderBookResponse" -> IsBook(b)
      [] type = "GetQuote"    -> HasAssets(b, "fromAsset", "toAsset")
      [] type \in {"GetDecimals", "GetHubBalance"} -> HasAsset(b)
      [] type = "GetBalance"  ->
            /\ Fields(b, {"asset"})
            /\ b.asset = [assetType |-> "Solana", mint |-> b.asset.mint]
      [] type = "GetTimeout"  ->
            b = [timeoutType |-> b.timeoutType] /\ b.timeoutType \in 0 .. 3
      [] type = "GetAssets"   -> b = [chainIDs |-> b.chainIDs] /\ AreNumbers(b.chainIDs)
      [] type = "GetAssetsResponse" ->
            /\ b = [ethereumAssets |-> b.ethereumAssets, solanaAssets |-> b.solanaAssets]
            /\ \A c \in b.ethereumAssets \cup b.solanaAssets : IsConfig(c)
      [] type = "GetChainsResponse" -> b = [chains |-> b.chains] /\ Bad \notin b.chains
      [] type = "SendETHTx"   -> Fields(b, {"chainID"}) /\ b.chainID # Bad
      [] OTHER                -> b # Bad

(* Only the app of a signed state can be one that is not written.          *)
Writable(type, b) == type \in Signed => MarshalSignedState(b) # Bad

(* Nothing that has to be there is nil.                                    *)
Whole(type, b) ==
    /\ \A o \in Orders(type, b) : Null \notin {o.base, o.quote}
    /\ Null \notin ChainIDs(type, b)

(* The types whose body is more than encoding/json writes by itself.       *)
Special == WithState \cup Signed \cup
    {"CreateOrder", "OrderBookSnapshot", "OrderBookDelta", "GetOrderBookResponse",
     "GetQuote", "GetDecimals", "GetHubBalance", "GetBalance", "GetTimeout",
     "GetAssets", "GetAssetsResponse", "GetChainsResponse", "SendETHTx"}

LEMMA BodyTrip ==
    ASSUME BadIsNoValue, NEW type, NEW b, IsBody(type, b), Writable(type, b), Whole(type, b)
    PROVE  LET j == MarshalBody(type, b)
           IN  /\ j # Bad /\ UnmarshalBody(type, j) = b /\ b # Bad
               /\ type \in Signed => ~SignedStatePanics(j)
<1> DEFINE j == MarshalBody(type, b)
<1>0. type \in Signed <=> type \in {"SignedState", "SendSignedState"}
    BY DEF Signed
<1>1. CASE type \in WithState
  <2> DEFINE c == MarshalChannelState(b.state)
  <2>1. Fields(b, {"state"}) /\ IsChannelState(b.state)
      BY <1>1 DEF IsBody, WithState, Signed
  <2>2. j = [b EXCEPT !.state = c]
      BY <1>1 DEF MarshalBody, WithState, Signed
  <2>3. UnmarshalChannelState(c) = b.state /\ b.state # Bad
      BY <2>1, StateTrip
  <2> HIDE DEF c, j
  <2>4. j.state = c /\ [j EXCEPT !.state = b.state] = b /\ IsFcn(j)
      BY <2>1, <2>2 DEF Fields, IsFcn
  <2>5. j # Bad /\ b # Bad
      BY <2>1, <2>4, FcnIsGood DEF Fields
  <2>6. UnmarshalBody(type, j) = b
      BY <1>1, <2>3, <2>4 DEF UnmarshalBody, IfGood, WithState, Signed
  <2> QED BY <1>1, <2>5, <2>6 DEF WithState, Signed, j
<1>2. CASE type \in Signed
  <2>1. IsSignedState(b) /\ j = MarshalSignedState(b) /\ j # Bad
      BY <1>2 DEF IsBody, MarshalBody, Writable, WithState, Signed
  <2>2. UnmarshalBody(type, j) = UnmarshalSignedState(j)
      BY <1>2 DEF UnmarshalBody, WithState, Signed
  <2> HIDE DEF j
  <2> QED BY <2>1, <2>2, SignedTrip DEF j
<1>3. CASE type = "CreateOrder"
  <2> DEFINE o == MarshalOrder(b.order)
  <2>1. Fields(b, {"order"}) /\ (IsOrder(b.order) \/ b.order = ZeroOrder)
      BY <1>3 DEF IsBody, WithState, Signed
  <2>2. b.order.base # Null
      BY <1>3 DEF Whole, Orders
  <2>3. IsOrder(b.order)
    <3>1. ZeroOrder.base = Null
        BY DEF ZeroOrder
    <3> QED BY <2>1, <2>2, <3>1
  <2>4. j = [b EXCEPT !.order = o]
      BY <1>3 DEF MarshalBody, WithState, Signed
  <2>5. UnmarshalOrder(o) = b.order /\ b.order # Bad /\ o # Null
      BY <2>3, OrderTrip, FieldsAreFcn
  <2> HIDE DEF o, j
  <2>6. j.order = o /\ [j EXCEPT !.order = b.order] = b /\ IsFcn(j)
      BY <2>1, <2>4 DEF Fields, IsFcn
  <2>7. j # Bad /\ b # Bad
      BY <2>1, <2>6, FcnIsGood DEF Fields
  <2>8. UnmarshalBody(type, j) = b
      BY <1>3, <2>5, <2>6 DEF UnmarshalBody, UnmarshalCreateOrder, IfGood, WithState, Signed
  <2> QED BY <1>0, <1>3, <2>7, <2>8 DEF j
<1>4. CASE type \in {"OrderBookSnapshot", "OrderBookDelta", "GetOrderBookResponse", "GetQuote"}
  <2>1. CASE type = "OrderBookSnapshot"
    <3>1. HasRows(b, "bids", "asks") /\ j = MarshalRows(b, "bids", "asks")
        BY <2>1 DEF IsBody, MarshalBody, MarshalSnapshot, WithState, Signed
    <3>2. UnmarshalBody(type, j) = UnmarshalRows(j, "bids", "asks")
        BY <2>1 DEF UnmarshalBody, UnmarshalSnapshot, WithState, Signed
    <3>3. Fields(j, {"bids", "asks"}) /\ UnmarshalRows(j, "bids", "asks") = b /\ b # Bad
        BY <3>1, RowsTrip
    <3> HIDE DEF j
    <3> QED BY <1>0, <2>1, <3>2, <3>3, FieldsAreFcn DEF j
  <2>2. CASE type = "OrderBookDelta"
    <3>1. HasRows(b, "added", "updated") /\ j = MarshalRows(b, "added", "updated")
        BY <2>2 DEF IsBody, MarshalBody, MarshalDelta, WithState, Signed
    <3>2. UnmarshalBody(type, j) = UnmarshalRows(j, "added", "updated")
        BY <2>2 DEF UnmarshalBody, UnmarshalDelta, WithState, Signed
    <3>3. Fields(j, {"added", "updated"}) /\ UnmarshalRows(j, "added", "updated") = b /\ b # Bad
        BY <3>1, RowsTrip
    <3> HIDE DEF j
    <3> QED BY <1>0, <2>2, <3>2, <3>3, FieldsAreFcn DEF j
  <2>3. CASE type = "GetOrderBookResponse"
    <3>1. IsBook(b) /\ j = MarshalGetOrderBookResponse(b)
        BY <2>3 DEF IsBody, MarshalBody, WithState, Signed
    <3>2. UnmarshalBody(type, j) = UnmarshalGetOrderBookResponse(j)
        BY <2>3 DEF UnmarshalBody, WithState, Signed
    <3> HIDE DEF j
    <3> QED BY <1>0, <2>3, <3>1, <3>2, BookTrip, FieldsAreFcn DEF j
  <2>4. CASE type = "GetQuote"
    <3>1. HasAssets(b, "fromAsset", "toAsset") /\ j = MarshalAssets(b, "fromAsset", "toAsset")
        BY <2>4 DEF IsBody, MarshalBody, MarshalGetQuote, WithState, Signed
    <3>2. UnmarshalBody(type, j) = UnmarshalAssets(j, "fromAsset", "toAsset")
        BY <2>4 DEF UnmarshalBody, UnmarshalGetQuote, WithState, Signed
    <3>3. Fields(j, {"fromAsset", "toAsset"}) /\ UnmarshalAssets(j, "fromAsset", "toAsset") = b /\ b # Bad
        BY <3>1, PairTrip
    <3> HIDE DEF j
    <3> QED BY <1>0, <2>4, <3>2, <3>3, FieldsAreFcn DEF j
  <2> QED BY <1>4, <2>1, <2>2, <2>3, <2>4
<1>5. CASE type \in {"GetDecimals", "GetHubBalance"}
  <2>1. HasAsset(b) /\ j = MarshalAssetField(b)
      BY <1>5 DEF IsBody, MarshalBody, WithState, Signed
  <2>2. UnmarshalBody(type, j) = UnmarshalAssetField(j)
      BY <1>5 DEF UnmarshalBody, WithState, Signed
  <2> HIDE DEF j
  <2> QED BY <1>0, <1>5, <2>1, <2>2, AssetFieldTrip, FieldsAreFcn DEF j
<1>6. CASE type = "GetBalance"
  <2> DEFINE a == MarshalSolanaAsset(b.asset)
  <2>1. Fields(b, {"asset"}) /\ b.asset = [assetType |-> "Solana", mint |-> b.asset.mint]
      BY <1>6 DEF IsBody, WithState, Signed
  <2>2. j = [b EXCEPT !.asset = a]
      BY <1>6 DEF MarshalBody, WithState, Signed
  <2>3. UnmarshalSolanaAsset(a) = b.asset
      BY <2>1 DEF MarshalSolanaAsset, UnmarshalSolanaAsset
  <2> HIDE DEF a, j
  <2>4. j.asset = a /\ [j EXCEPT !.asset = b.asset] = b /\ IsFcn(j)
      BY <2>1, <2>2 DEF Fields, IsFcn
  <2>5. j # Bad /\ b # Bad
      BY <2>1, <2>4, FcnIsGood DEF Fields
  <2>6. UnmarshalBody(type, j) = b
      BY <1>6, <2>3, <2>4 DEF UnmarshalBody, WithState, Signed
  <2> QED BY <1>0, <1>6, <2>5, <2>6 DEF j
<1>7. CASE type = "GetTimeout"
  <2> DEFINE name == TimeoutNames[b.timeoutType + 1]
  <2>1. b = [timeoutType |-> b.timeoutType] /\ b.timeoutType \in 0 .. 3
      BY <1>7 DEF IsBody, WithState, Signed
  <2>2. j = [timeoutType |-> name]
      BY <1>7 DEF MarshalBody, WithState, Signed
  <2>3. ReadName(TimeoutNames, name) = b.timeoutType /\ b.timeoutType # Bad
      BY <2>1, TimeoutTrip
  <2> HIDE DEF name
  <2>4. IsFcn(j) /\ IsFcn(b) /\ j.timeoutType = name
      BY <2>1, <2>2 DEF IsFcn
  <2> HIDE DEF j
  <2>5. UnmarshalBody(type, j) = [timeoutType |-> b.timeoutType]
      BY <1>7, <2>3, <2>4 DEF UnmarshalBody, IfGood, WithState, Signed
  <2> QED BY <1>0, <1>7, <2>1, <2>4, <2>5, FcnIsGood DEF j
<1>8. CASE type = "GetAssets"
  <2> DEFINE row == Decimals(b.chainIDs)
  <2>1. b = [chainIDs |-> b.chainIDs] /\ AreNumbers(b.chainIDs)
      BY <1>8 DEF IsBody, WithState, Signed
  <2>2. j = [chainIDs |-> row]
      BY <1>8 DEF MarshalBody, WithState, Signed
  <2>3. Parsed(row) = b.chainIDs /\ b.chainIDs # Bad
      BY <2>1, DecimalsTrip
  <2> HIDE DEF row
  <2>4. IsFcn(j) /\ IsFcn(b) /\ j.chainIDs = row
      BY <2>1, <2>2 DEF IsFcn
  <2> HIDE DEF j
  <2>5. UnmarshalBody(type, j) = [chainIDs |-> b.chainIDs]
      BY <1>8, <2>3, <2>4 DEF UnmarshalBody, IfGood, WithState, Signed
  <2> QED BY <1>0, <1>8, <2>1, <2>4, <2>5, FcnIsGood DEF j
<1>9. CASE type = "GetAssetsResponse"
  <2> DEFINE eth == {MarshalConfig(EthereumTypeNames, c) : c \in b.ethereumAssets}
             sol == {MarshalConfig(SolanaTypeNames, c) : c \in b.solanaAssets}
  <2>1. /\ b = [ethereumAssets |-> b.ethereumAssets, solanaAssets |-> b.solanaAssets]
        /\ \A c \in b.ethereumAssets \cup b.solanaAssets : IsConfig(c)
      BY <1>9 DEF IsBody, WithState, Signed
  <2>2. \A c \in b.ethereumAssets \cup b.solanaAssets : c.chainID # Null
      BY <1>9 DEF Whole, ChainIDs
  <2>3. j = [ethereumAssets |-> eth, solanaAssets |-> sol]
      BY <1>9 DEF MarshalBody, MarshalGetAssetsResponse, WithState, Signed
  <2>4. /\ {UnmarshalConfig(EthereumTypeNames, c) : c \in eth} = b.ethereumAssets
        /\ {UnmarshalConfig(SolanaTypeNames, c) : c \in sol} = b.solanaAssets
        /\ Bad \notin b.ethereumAssets \cup b.solanaAssets
      BY <2>1, <2>2, ConfigsTrip DEF TypeNames
  <2>5. IsFcn(j) /\ IsFcn(b)
      BY <2>1, <2>3 DEF IsFcn
  <2> HIDE DEF eth, sol
  <2>6. j.ethereumAssets = eth /\ j.solanaAssets = sol
      BY <2>3
  <2> HIDE DEF j
  <2>7. UnmarshalBody(type, j) =
            [ethereumAssets |-> b.ethereumAssets, solanaAssets |-> b.solanaAssets]
      BY <1>9, <2>4, <2>6 DEF UnmarshalBody, UnmarshalGetAssetsResponse, WithState, Signed
  <2> QED BY <1>0, <1>9, <2>1, <2>5, <2>7, FcnIsGood DEF j
<1>10. CASE type = "GetChainsResponse"
  <2> DEFINE ids == {Decimal(id) : id \in b.chains}
  <2>1. b = [chains |-> b.chains] /\ \A id \in b.chains : IsNumber(id)
      BY <1>10 DEF IsBody, Whole, ChainIDs, IsNumber, WithState, Signed
  <2>2. j = [chains |-> ids]
      BY <1>10 DEF MarshalBody, WithState, Signed
  <2>3. {Opt(ParseDecimal, id) : id \in ids} = b.chains /\ Bad \notin b.chains
      BY <2>1, DecimalTrip DEF IsNumber
  <2> HIDE DEF ids
  <2>4. IsFcn(j) /\ IsFcn(b) /\ j.chains = ids
      BY <2>1, <2>2 DEF IsFcn
  <2> HIDE DEF j
  <2>5. UnmarshalBody(type, j) = [chains |-> b.chains]
      BY <1>10, <2>3, <2>4 DEF UnmarshalBody, UnmarshalGetChainsResponse, WithState, Signed
  <2> QED BY <1>0, <1>10, <2>1, <2>4, <2>5, FcnIsGood DEF j
<1>11. CASE type = "SendETHTx"
  <2> DEFINE id == Decimal(b.chainID)
  <2>1. Fields(b, {"chainID"}) /\ IsNumber(b.chainID)
      BY <1>11 DEF IsBody, Whole, ChainIDs, IsNumber, WithState, Signed
  <2>2. j = [b EXCEPT !.chainID = id]
      BY <1>11 DEF MarshalBody, WithState, Signed
  <2>3. Opt(ParseDecimal, id) = b.chainID /\ b.chainID # Bad
      BY <2>1, DecimalTrip DEF IsNumber
  <2> HIDE DEF id, j
  <2>4. j.chainID = id /\ [j EXCEPT !.chainID = b.chainID] = b /\ IsFcn(j)
      BY <2>1, <2>2 DEF Fields, IsFcn
  <2>5. j # Bad /\ b # Bad
      BY <2>1, <2>4, FcnIsGood DEF Fields
  <2>6. UnmarshalBody(type, j) = b
      BY <1>11, <2>3, <2>4 DEF UnmarshalBody, UnmarshalSendETHTx, IfGood, WithState, Signed
  <2> QED BY <1>0, <1>11, <2>5, <2>6 DEF j
<1>12. CASE type \notin Special
  <2>1. b # Bad /\ j = b
      BY <1>12 DEF IsBody, MarshalBody, Special
  <2>2. UnmarshalBody(type, b) = b
      BY <1>12 DEF UnmarshalBody, Special
  <2> HIDE DEF j
  <2> QED BY <1>12, <2>1, <2>2 DEF Special, j
<1> HIDE DEF j
<1> QED BY <1>1, <1>2, <1>3, <1>4, <1>5, <1>6, <1>7, <1>8, <1>9, <1>10, <1>11, <1>12
        DEF Special, j

LEMMA BodyShape ==
    ASSUME BadIsNoValue, NEW type, NEW j, IsBodyJSON(type, j), UnmarshalBody(type, j) # Bad,
           type \in Signed => ~SignedStatePanics(j)
    PROVE  LET b == UnmarshalBody(type, j) IN IsBody(type, b) /\ Writable(type, b)
<1> DEFINE b == UnmarshalBody(type, j)
<1>0. type \in Signed <=> type \in {"SignedState", "SendSignedState"}
    BY DEF Signed
<1>1. CASE type \in WithState
  <2> DEFINE c == UnmarshalChannelState(j.state)
  <2>1. Fields(j, {"state"})
      BY <1>1 DEF IsBodyJSON, WithState, Signed
  <2>2. c # Bad /\ b = [j EXCEPT !.state = c]
      BY <1>1 DEF UnmarshalBody, IfGood, WithState, Signed
  <2>3. IsChannelState(c)
      BY <2>2, StateShape
  <2> HIDE DEF b, c
  <2>4. b.state = c /\ Fields(b, {"state"})
      BY <2>1, <2>2 DEF Fields, IsFcn
  <2> QED BY <1>1, <2>3, <2>4 DEF IsBody, Writable, WithState, Signed, b
<1>2. CASE type \in Signed
  <2>1. IsStateJSON(j.state) /\ b = UnmarshalSignedState(j)
      BY <1>2 DEF IsBodyJSON, UnmarshalBody, WithState, Signed
  <2>2. IsSignedState(b) /\ MarshalSignedState(b) # Bad
      BY <1>2, <2>1, SignedShape
  <2> HIDE DEF b
  <2> QED BY <1>2, <2>2 DEF IsBody, Writable, WithState, Signed, b
<1>3. CASE type = "CreateOrder"
  <2> DEFINE o == IF j.order = Null THEN ZeroOrder ELSE UnmarshalOrder(j.order)
  <2>1. Fields(j, {"order"}) /\ (j.order # Null => Fields(j.order, {"base", "quote"}))
      BY <1>3 DEF IsBodyJSON, WithState, Signed
  <2>2. o # Bad /\ b = [j EXCEPT !.order = o]
      BY <1>3 DEF UnmarshalBody, UnmarshalCreateOrder, IfGood, WithState, Signed
  <2>3. IsOrder(o) \/ o = ZeroOrder
      BY <2>1, <2>2, OrderShape
  <2> HIDE DEF b, o
  <2>4. b.order = o /\ Fields(b, {"order"})
      BY <2>1, <2>2 DEF Fields, IsFcn
  <2> QED BY <1>0, <1>3, <2>3, <2>4 DEF IsBody, Writable, WithState, Signed, b
<1>4. CASE type = "OrderBookSnapshot"
  <2>1. IsRowsJSON(j, "bids", "asks") /\ b = UnmarshalRows(j, "bids", "asks")
      BY <1>4 DEF IsBodyJSON, UnmarshalBody, UnmarshalSnapshot, WithState, Signed
  <2>2. HasRows(b, "bids", "asks")
      BY <2>1, RowsShape
  <2> HIDE DEF b
  <2> QED BY <1>0, <1>4, <2>2 DEF IsBody, Writable, WithState, Signed, b
<1>5. CASE type = "OrderBookDelta"
  <2>1. IsRowsJSON(j, "added", "updated") /\ b = UnmarshalRows(j, "added", "updated")
      BY <1>5 DEF IsBodyJSON, UnmarshalBody, UnmarshalDelta, WithState, Signed
  <2>2. HasRows(b, "added", "updated")
      BY <2>1, RowsShape
  <2> HIDE DEF b
  <2> QED BY <1>0, <1>5, <2>2 DEF IsBody, Writable, WithState, Signed, b
<1>6. CASE type = "GetOrderBookResponse"
  <2>1. b = UnmarshalGetOrderBookResponse(j)
      BY <1>6 DEF UnmarshalBody, WithState, Signed
  <2>2. IsBook(b)
      BY <1>6, <2>1, BookShape
  <2> HIDE DEF b
  <2> QED BY <1>0, <1>6, <2>2 DEF IsBody, Writable, WithState, Signed, b
<1>7. CASE type = "GetQuote"
  <2>1. Fields(j, {"fromAsset", "toAsset"}) /\ b = UnmarshalAssets(j, "fromAsset", "toAsset")
      BY <1>7 DEF IsBodyJSON, UnmarshalBody, UnmarshalGetQuote, WithState, Signed
  <2>2. HasAssets(b, "fromAsset", "toAsset")
      BY <2>1, PairShape
  <2> HIDE DEF b
  <2> QED BY <1>0, <1>7, <2>2 DEF IsBody, Writable, WithState, Signed, b
<1>8. CASE type \in {"GetDecimals", "GetHubBalance"}
  <2>1. Fields(j, {"asset"}) /\ b = UnmarshalAssetField(j)
      BY <1>8 DEF IsBodyJSON, UnmarshalBody, WithState, Signed
  <2>2. HasAsset(b)
      BY <2>1, AssetFieldShape
  <2> HIDE DEF b
  <2> QED BY <1>0, <1>8, <2>2 DEF IsBody, Writable, WithState, Signed, b
<1>9. CASE type = "GetBalance"
  <2> DEFINE a == UnmarshalSolanaAsset(j.asset)
  <2>1. Fields(j, {"asset"}) /\ b = [j EXCEPT !.asset = a]
      BY <1>9 DEF IsBodyJSON, UnmarshalBody, WithState, Signed
  <2>2. a = [assetType |-> "Solana", mint |-> a.mint]
      BY DEF UnmarshalSolanaAsset
  <2> HIDE DEF b, a
  <2>3. b.asset = a /\ Fields(b, {"asset"})
      BY <2>1 DEF Fields, IsFcn
  <2> QED BY <1>0, <1>9, <2>2, <2>3 DEF IsBody, Writable, WithState, Signed, b
<1>10. CASE type = "GetTimeout"
  <2> DEFINE n == ReadName(TimeoutNames, j.timeoutType)
  <2>1. n # Bad /\ b = [timeoutType |-> n]
      BY <1>10 DEF UnmarshalBody, IfGood, WithState, Signed
  <2>2. n \in 0 .. 3
      BY <2>1, TimeoutShape
  <2> HIDE DEF b, n
  <2> QED BY <1>0, <1>10, <2>1, <2>2 DEF IsBody, Writable, WithState, Signed, b
<1>11. CASE type = "GetAssets"
  <2> DEFINE row == Parsed(j.chainIDs)
  <2>1. row # Bad /\ b = [chainIDs |-> row]
      BY <1>11 DEF UnmarshalBody, IfGood, WithState, Signed
  <2>2. AreNumbers(row)
      BY <2>1, DecimalsShape
  <2> HIDE DEF b, row
  <2> QED BY <1>0, <1>11, <2>1, <2>2 DEF IsBody, Writable, WithState, Signed, b
<1>12. CASE type = "GetAssetsResponse"
  <2> DEFINE eth == {UnmarshalConfig(EthereumTypeNames, c) : c \in j.ethereumAssets}
             sol == {UnmarshalConfig(SolanaTypeNames, c) : c \in j.solanaAssets}
  <2>1. \A c \in j.ethereumAssets \cup j.solanaAssets : Fields(c, {"type", "chainID"})
      BY <1>12 DEF IsBodyJSON, WithState, Signed
  <2>2. Bad \notin eth \cup sol /\ b = [ethereumAssets |-> eth, solanaAssets |-> sol]
      BY <1>12 DEF UnmarshalBody, UnmarshalGetAssetsResponse, WithState, Signed
  <2>3. \A c \in eth \cup sol : IsConfig(c)
      BY <2>1, <2>2, ConfigShape DEF TypeNames
  <2> HIDE DEF b, eth, sol
  <2> QED BY <1>0, <1>12, <2>2, <2>3 DEF IsBody, Writable, WithState, Signed, b
<1>13. CASE type = "GetChainsResponse"
  <2> DEFINE ids == {Opt(ParseDecimal, id) : id \in j.chains}
  <2>1. Bad \notin ids /\ b = [chains |-> ids]
      BY <1>13 DEF UnmarshalBody, UnmarshalGetChainsResponse, WithState, Signed
  <2> HIDE DEF b, ids
  <2> QED BY <1>0, <1>13, <2>1 DEF IsBody, Writable, WithState, Signed, b
<1>14. CASE type = "SendETHTx"
  <2> DEFINE id == Opt(ParseDecimal, j.chainID)
  <2>1. Fields(j, {"chainID"})
      BY <1>14 DEF IsBodyJSON, WithState, Signed
  <2>2. id # Bad /\ b = [j EXCEPT !.chainID = id]
      BY <1>14 DEF UnmarshalBody, UnmarshalSendETHTx, IfGood, WithState, Signed
  <2> HIDE DEF b, id
  <2>3. b.chainID = id /\ Fields(b, {"chainID"})
      BY <2>1, <2>2 DEF Fields, IsFcn
  <2> QED BY <1>0, <1>14, <2>2, <2>3 DEF IsBody, Writable, WithState, Signed, b
<1>15. CASE type \notin Special
  <2> HIDE DEF b
  <2> QED BY <1>15 DEF IsBody, Writable, Special, b
<1> HIDE DEF b
<1> QED BY <1>1, <1>2, <1>3, <1>4, <1>5, <1>6, <1>7, <1>8, <1>9, <1>10, <1>11, <1>12,
           <1>13, <1>14, <1>15 DEF Special, b

(* Only the order of a CreateOrder may be without assets.                  *)
LEMMA OrdersHaveAssets ==
    ASSUME NEW type, NEW b, IsBody(type, b), NEW o \in Orders(type, b),
           Null \in {o.base, o.quote}
    PROVE  type = "CreateOrder" /\ b.order = ZeroOrder
<1>1. ASSUME NEW r, AreOrders(r), o \in Values(r) PROVE FALSE
    BY <1>1 DEF AreOrders, Values, IsOrder
<1>2. CASE type = "CreateOrder"
    BY <1>2 DEF Orders, IsBody, IsOrder, WithState, Signed
<1>3. CASE type = "OrderBookSnapshot"
    BY <1>1, <1>3 DEF Orders, RowOrders, IsBody, HasRows, WithState, Signed
<1>4. CASE type = "OrderBookDelta"
    BY <1>1, <1>4 DEF Orders, RowOrders, IsBody, HasRows, WithState, Signed
<1>5. CASE type = "GetOrderBookResponse"
  <2>1. IsBook(b)
      BY <1>5 DEF IsBody, WithState, Signed
  <2>2. \/ b.snapshot # Null /\ o \in RowOrders(b.snapshot, "bids", "asks")
        \/ b.delta # Null /\ o \in RowOrders(b.delta, "added", "updated")
      BY <1>5 DEF Orders
  <2> QED BY <1>1, <2>1, <2>2 DEF RowOrders, IsBook, HasRows
<1> QED BY <1>2, <1>3, <1>4, <1>5 DEF Orders

(* A message that is no envelope, and any message.                         *)
IsPlain(m) ==
    /\ m = Message(m.type, m.body)
    /\ m.type \in MessageTypes \ Envelopes /\ IsBody(m.type, m.body)

WellFormed(m) ==
    IF m.type \in Envelopes
      THEN /\ m = Message(m.type, m.body) /\ Fields(m.body, {"message"})
           /\ m.body.message # Null => IsPlain(m.body.message)
      ELSE IsPlain(m)

LEMMA ObjectTrip ==
    ASSUME BadIsNoValue, NEW m, IsPlain(m), Whole(m.type, m.body), MarshalObject(m) # Bad
    PROVE  LET obj == MarshalObject(m)
           IN  /\ UnmarshalObject(obj) = m /\ obj.type = m.type /\ obj # Null
               /\ m # Bad
               /\ m.type \in Signed => ~SignedStatePanics(obj.message)
<1> DEFINE j   == MarshalBody(m.type, m.body)
           obj == [type |-> m.type, message |-> j]
<1>1. j # Bad /\ MarshalObject(m) = obj
    BY DEF MarshalObject, IfGood
<1>2. Writable(m.type, m.body)
    BY <1>1 DEF Writable, MarshalBody, WithState, Signed
<1>3. /\ UnmarshalBody(m.type, j) = m.body /\ m.body # Bad
      /\ m.type \in Signed => ~SignedStatePanics(j)
    BY <1>2, BodyTrip DEF IsPlain
<1> HIDE DEF j
<1>4. obj.type = m.type /\ obj.message = j /\ IsFcn(obj)
    BY DEF IsFcn
<1> HIDE DEF obj
<1>5. UnmarshalObject(obj) = m
    BY <1>3, <1>4 DEF UnmarshalObject, IfGood, IsPlain
<1>6. m # Bad
  <2>1. m = [type |-> m.type, body |-> m.body]
      BY DEF IsPlain, Message
  <2>2. IsFcn(m)
      BY <2>1 DEF IsFcn
  <2> QED BY <2>2, FcnIsGood
<1> QED BY <1>1, <1>3, <1>4, <1>5, <1>6, FcnIsGood

LEMMA ObjectShape ==
    ASSUME BadIsNoValue, NEW obj, obj.type \notin Envelopes,
           IsBodyJSON(obj.type, obj.message), UnmarshalObject(obj) # Bad,
           obj.type \in Signed => ~SignedStatePanics(obj.message)
    PROVE  LET m == UnmarshalObject(obj)
           IN  IsPlain(m) /\ m.type = obj.type /\ Writable(m.type, m.body)
<1> DEFINE b == UnmarshalBody(obj.type, obj.message)
<1>1. /\ obj.type \in MessageTypes /\ b # Bad
      /\ UnmarshalObject(obj) = Message(obj.type, b)
    BY DEF UnmarshalObject, IfGood
<1>2. IsBody(obj.type, b) /\ Writable(obj.type, b)
    BY <1>1, BodyShape
<1> HIDE DEF b
<1> QED BY <1>1, <1>2 DEF IsPlain, Message

LEMMA ObjectIsWritten ==
    ASSUME BadIsNoValue, NEW m, IsPlain(m), Whole(m.type, m.body), Writable(m.type, m.body)
    PROVE  MarshalObject(m) # Bad
<1> DEFINE j   == MarshalBody(m.type, m.body)
           obj == [type |-> m.type, message |-> j]
<1>1. j # Bad
    BY BodyTrip DEF IsPlain
<1>2. MarshalObject(m) = obj
    BY <1>1 DEF MarshalObject, IfGood
<1> HIDE DEF j
<1>3. IsFcn(obj)
    BY DEF IsFcn
<1> QED BY <1>2, <1>3, FcnIsGood

LEMMA WholeCarried ==
    ASSUME NEW m, IsWhole(m)
    PROVE  Carried(m) # Null => Whole(Carried(m).type, Carried(m).body)
BY DEF IsWhole, WritePanics, Whole

(* A message that can be written is read back as it was, whatever its      *)
(* type, alone or as a request's or an answer's: assets of two kinds       *)
(* nested in states, orders, questions and the lists of an order book,     *)
(* balances, apps, time-outs, chains and configurations (message.go:546).  *)
THEOREM RoundTrip ==
    ASSUME BadIsNoValue, NEW m, WellFormed(m), IsWhole(m), Marshal(m) # Bad
    PROVE  Survives(m)
<1>1. CASE m.type \notin Envelopes
  <2> DEFINE obj == MarshalObject(m)
  <2>1. Carried(m) = m /\ Marshal(m) = obj /\ obj # Bad /\ IsPlain(m)
      BY <1>1 DEF Carried, Marshal, WellFormed
  <2>2. m # Null
    <3>1. m = [type |-> m.type, body |-> m.body]
        BY <2>1 DEF IsPlain, Message
    <3>2. IsFcn(m)
        BY <3>1 DEF IsFcn
    <3> QED BY <3>2, FcnIsGood
  <2>3. /\ UnmarshalObject(obj) = m /\ obj.type = m.type
        /\ m.type \in Signed => ~SignedStatePanics(obj.message)
      BY <2>1, <2>2, WholeCarried, ObjectTrip
  <2> HIDE DEF obj
  <2>4. Unmarshal(obj) = m /\ ~ReadPanics(obj)
      BY <1>1, <2>1, <2>3 DEF Unmarshal, ReadPanics, CarriedJSON
  <2> QED BY <2>1, <2>4 DEF Survives, IsWhole
<1>2. CASE m.type \in Envelopes
  <2> DEFINE c     == m.body.message
             inner == Opt(MarshalObject, c)
             e     == [m.body EXCEPT !["message"] = inner]
             obj   == [type |-> m.type, message |-> e]
  <2>1. Carried(m) = c
      BY <1>2 DEF Carried
  <2>2. inner # Bad /\ Marshal(m) = obj
      BY <1>2 DEF Marshal, IfGood
  <2>3. /\ m = Message(m.type, m.body) /\ Fields(m.body, {"message"})
        /\ c # Null => IsPlain(c)
      BY <1>2 DEF WellFormed
  <2>4. /\ Opt(UnmarshalObject, inner) = c /\ c # Bad
        /\ inner # Null => /\ inner.type \notin Envelopes
                           /\ inner.type \in Signed => ~SignedStatePanics(inner.message)
    <3>1. CASE c = Null
        BY <3>1 DEF Opt, BadIsNoValue
    <3>2. CASE c # Null
      <4>1. inner = MarshalObject(c) /\ c.type \notin Envelopes
          BY <2>3, <3>2 DEF Opt, IsPlain
      <4>2. /\ UnmarshalObject(inner) = c /\ inner.type = c.type /\ inner # Null /\ c # Bad
            /\ c.type \in Signed => ~SignedStatePanics(inner.message)
          BY <2>1, <2>2, <2>3, <3>2, <4>1, WholeCarried, ObjectTrip
      <4> HIDE DEF inner
      <4> QED BY <4>1, <4>2 DEF Opt
    <3> QED BY <3>1, <3>2
  <2> HIDE DEF inner
  <2>5. e["message"] = inner /\ [e EXCEPT !["message"] = m.body["message"]] = m.body
      BY <2>3 DEF Fields, IsFcn
  <2> HIDE DEF e
  <2>6. obj.type = m.type /\ obj.message = e /\ obj # Bad
    <3>1. IsFcn(obj)
        BY DEF IsFcn
    <3> QED BY <3>1, FcnIsGood
  <2> HIDE DEF obj
  <2>7. Unmarshal(obj) = m /\ ~ReadPanics(obj)
      BY <1>2, <2>3, <2>4, <2>5, <2>6 DEF Unmarshal, ReadPanics, CarriedJSON, IfGood
  <2> QED BY <2>2, <2>7 DEF Survives, IsWhole
<1> QED BY <1>1, <1>2

(* What is read is a message, and what it carries can be written.          *)
LEMMA ReadShape ==
    ASSUME BadIsNoValue, NEW obj, obj # Bad, IsFrame(obj), ~ReadPanics(obj),
           Unmarshal(obj) # Bad
    PROVE  LET m == Unmarshal(obj)
               c == Carried(m)
           IN  WellFormed(m) /\ (c # Null => IsPlain(c) /\ Writable(c.type, c.body))
<1> DEFINE m == Unmarshal(obj)
           c == Carried(m)
<1>1. CASE obj.type \notin Envelopes
  <2>1. m = UnmarshalObject(obj) /\ IsBodyJSON(obj.type, obj.message) /\ obj # Null
      BY <1>1 DEF Unmarshal, IsFrame
  <2>2. obj.type \in Signed => ~SignedStatePanics(obj.message)
      BY <1>1, <2>1 DEF ReadPanics, CarriedJSON
  <2> HIDE DEF m
  <2>3. IsPlain(m) /\ m.type = obj.type /\ Writable(m.type, m.body)
      BY <1>1, <2>1, <2>2, ObjectShape DEF m
  <2>4. c = m
      BY <1>1, <2>3 DEF Carried
  <2> QED BY <1>1, <2>3, <2>4 DEF m, WellFormed
<1>2. CASE obj.type \in Envelopes
  <2> DEFINE o     == obj.message.message
             inner == Opt(UnmarshalObject, o)
             e     == [obj.message EXCEPT !["message"] = inner]
  <2>1. inner # Bad /\ m = Message(obj.type, e)
      BY <1>2 DEF Unmarshal, IfGood
  <2>2. /\ Fields(obj.message, {"message"})
        /\ o # Null => o.type \notin Envelopes /\ IsBodyJSON(o.type, o.message)
      BY <1>2 DEF IsFrame
  <2>3. o # Null /\ o.type \in Signed => ~SignedStatePanics(o.message)
      BY <1>2 DEF ReadPanics, CarriedJSON
  <2>4. inner # Null => IsPlain(inner) /\ Writable(inner.type, inner.body)
      BY <2>1, <2>2, <2>3, ObjectShape DEF Opt
  <2> HIDE DEF o, inner
  <2>5. e["message"] = inner /\ Fields(e, {"message"})
      BY <2>2 DEF Fields, IsFcn
  <2> HIDE DEF e, m
  <2>6. m.type = obj.type /\ m.body = e /\ m = Message(m.type, m.body)
      BY <2>1 DEF Message
  <2>7. c = inner
      BY <1>2, <2>5, <2>6 DEF Carried
  <2>8. WellFormed(m)
      BY <1>2, <2>4, <2>5, <2>6 DEF WellFormed
  <2> QED BY <2>4, <2>7, <2>8 DEF m
<1> HIDE DEF m
<1> QED BY <1>1, <1>2 DEF m

(* What Read accepts can be written and is then read as the same message,  *)
(* unless a chain's ID in it is nil.  Writing it panics for one message    *)
(* only: the order that was left out of a CreateOrder has no assets        *)
(* (assetmarshal.go:13).                                                   *)
THEOREM ReadSurvives ==
    ASSUME BadIsNoValue, NEW obj, obj # Bad, IsFrame(obj), ~ReadPanics(obj),
           Unmarshal(obj) # Bad
    PROVE  LET m == Unmarshal(obj)
               c == Carried(m)
           IN  /\ IsWhole(m) => Survives(m) /\ Marshal(m) # Bad
               /\ WritePanics(m) => c.type = "CreateOrder" /\ c.body.order = ZeroOrder
<1> DEFINE m == Unmarshal(obj)
           c == Carried(m)
<1>1. WellFormed(m) /\ (c # Null => IsPlain(c) /\ Writable(c.type, c.body))
    BY ReadShape
<1> HIDE DEF m
<1>2. ASSUME IsWhole(m) PROVE Survives(m) /\ Marshal(m) # Bad
  <2>1. c # Null => MarshalObject(c) # Bad
      BY <1>1, <1>2, WholeCarried, ObjectIsWritten
  <2>2. CASE m.type \notin Envelopes
    <3>1. c = m /\ m = [type |-> m.type, body |-> m.body]
        BY <1>1, <2>2 DEF Carried, WellFormed, IsPlain, Message
    <3>2. IsFcn(m)
        BY <3>1 DEF IsFcn
    <3>3. Marshal(m) = MarshalObject(c) /\ c # Null
        BY <2>2, <3>1, <3>2, FcnIsGood DEF Marshal
    <3> QED BY <1>1, <1>2, <2>1, <3>3, RoundTrip
  <2>3. CASE m.type \in Envelopes
    <3> DEFINE inner == Opt(MarshalObject, c)
               j == [type |-> m.type, message |-> [m.body EXCEPT !.message = inner]]
    <3>1. inner # Bad
        BY <2>1 DEF Opt, BadIsNoValue
    <3>2. Marshal(m) = j
        BY <2>3, <3>1 DEF Marshal, IfGood, Carried
    <3> HIDE DEF inner
    <3>3. IsFcn(j)
        BY DEF IsFcn
    <3> QED BY <1>1, <1>2, <3>2, <3>3, FcnIsGood, RoundTrip
  <2> QED BY <2>2, <2>3
<1>3. ASSUME WritePanics(m) PROVE c.type = "CreateOrder" /\ c.body.order = ZeroOrder
  <2>1. c # Null /\ \E o \in Orders(c.type, c.body) : Null \in {o.base, o.quote}
      BY <1>3 DEF WritePanics
  <2> QED BY <1>1, <2>1, OrdersHaveAssets DEF IsPlain
<1> QED BY <1>2, <1>3 DEF m

-----------------------------------------------------------------------------
BrowserAsset(a) == IF a.backend = SolanaIndex THEN MakeSolanaAssets(a) ELSE NewEthereumAsset(a)

(* The assets of go-perun: a key, or a chain and an address.  What stands  *)
(* for an error or for no mint is not also the form of an asset.           *)
PerunAssetOK(a) ==
    /\ \/ a = [backend |-> SolanaIndex, id |-> a.id]
       \/ /\ a = [backend |-> EthereumIndex,
                  id |-> [chainID |-> a.id.chainID, assetHolder |-> a.id.assetHolder]]
          /\ IsNumber(a.id.chainID)
    /\ Bad \notin {a, a.id, Base58(a.id), BrowserAsset(a)}
    /\ NoMint \notin {Bad, Base58(a.id)}

LEMMA AssetToBrowser ==
    ASSUME NEW a, PerunAssetOK(a)
    PROVE  BrowserAsset(a) =
               IF a.backend = SolanaIndex
                 THEN [assetType |-> "Solana",
                       mint |-> IF a.id = ZeroKey THEN NoMint ELSE Base58(a.id)]
                 ELSE [assetType |-> "Ethereum", assetHolder |-> a.id.assetHolder,
                       chainID |-> a.id.chainID]
BY DEF BrowserAsset, MakeSolanaAssets, NewEthereumAsset

LEMMA BrowserAssetShape ==
    ASSUME NEW a, PerunAssetOK(a)
    PROVE  IsAsset(BrowserAsset(a))
<1>1. CASE a = [backend |-> SolanaIndex, id |-> a.id]
    BY <1>1, AssetToBrowser DEF IsAsset
<1>2. CASE /\ a = [backend |-> EthereumIndex,
                   id |-> [chainID |-> a.id.chainID, assetHolder |-> a.id.assetHolder]]
           /\ IsNumber(a.id.chainID)
    BY <1>2, AssetToBrowser DEF IsAsset, EthereumIndex, SolanaIndex
<1> QED BY <1>1, <1>2 DEF PerunAssetOK

(* The browser's asset and the backend beside it make go-perun's asset.    *)
LEMMA AssetBack ==
    ASSUME NEW a, PerunAssetOK(a)
    PROVE  PerunAsset(BrowserAsset(a), a.backend) = a
<1> DEFINE b == BrowserAsset(a)
<1>1. CASE a = [backend |-> SolanaIndex, id |-> a.id]
  <2>1. /\ a.backend = SolanaIndex /\ b.assetType = "Solana"
        /\ b.mint = IF a.id = ZeroKey THEN NoMint ELSE Base58(a.id)
      BY <1>1, AssetToBrowser
  <2> HIDE DEF b
  <2>2. StringToPublicKey(b.mint) = a.id
    <3>1. CASE a.id = ZeroKey
        BY <2>1, <3>1 DEF StringToPublicKey
    <3>2. CASE a.id # ZeroKey
        BY <2>1, <3>2 DEF StringToPublicKey, IfGood, PerunAssetOK, Base58
    <3> QED BY <3>1, <3>2
  <2>3. a.id # Bad /\ SolanaIndex # EthereumIndex
      BY DEF PerunAssetOK, SolanaIndex, EthereumIndex
  <2> QED BY <1>1, <2>1, <2>2, <2>3 DEF PerunAsset, IfGood, b
<1>2. CASE a = [backend |-> EthereumIndex,
                id |-> [chainID |-> a.id.chainID, assetHolder |-> a.id.assetHolder]]
  <2>1. /\ a.backend = EthereumIndex /\ b.assetType = "Ethereum"
        /\ b.chainID = a.id.chainID /\ b.assetHolder = a.id.assetHolder
      BY <1>2, AssetToBrowser DEF SolanaIndex, EthereumIndex
  <2> HIDE DEF b
  <2> QED BY <1>2, <2>1 DEF PerunAsset, b
<1> QED BY <1>1, <1>2 DEF PerunAssetOK

-----------------------------------------------------------------------------
(* Whatever channel state GetChannelInfo shows a browser, the message that *)
(* arrives is the one that was sent, and if the browser sends it back,     *)
(* what handleOpenChannel makes of it are the assets and balances go-perun *)
(* has, for either participant (state.go:396, :413, :427).                 *)
THEOREM StateThroughBrowser ==
    ASSUME BadIsNoValue, NEW n \in Nat, NEW assets, NEW balances, NEW idx \in Parts, NEW isFinal,
           assets = [i \in 1 .. n |-> assets[i]],
           \A i \in 1 .. n : PerunAssetOK(assets[i]),
           balances \in [1 .. n -> [Parts -> Nat]]
    PROVE  LET backends == [i \in 1 .. n |-> assets[i].backend]
               shown == NewChannelState(assets, backends, MakeBals(balances, idx, 1 - idx),
                                        isFinal)
               read  == UnmarshalChannelState(MarshalChannelState(shown))
           IN  /\ read = shown
               /\ ~PerunAssetsPanic(read.assets, read.backends)
               /\ MakePerunAssets(read.assets, read.backends) = assets
               /\ ~PerunBalsFail(read.balance, read.peerBalance, idx, 1 - idx)
               /\ MakePerunBals(read.balance, read.peerBalance, idx, 1 - idx) = balances
<1> DEFINE backends == [i \in 1 .. n |-> assets[i].backend]
           browser  == [i \in 1 .. n |-> BrowserAsset(assets[i])]
           my       == [i \in 1 .. n |-> balances[i][idx]]
           peer     == [i \in 1 .. n |-> balances[i][1 - idx]]
           shown    == [assets |-> browser, backends |-> backends, balance |-> my,
                        peerBalance |-> peer, isFinal |-> isFinal]
<1>1. MakeAssetsGPAsAssets(assets) = browser
  <2>1. DOMAIN assets = 1 .. n
      OBVIOUS
  <2> QED BY <2>1 DEF MakeAssetsGPAsAssets, BrowserAsset
<1>2. NewChannelState(assets, backends, MakeBals(balances, idx, 1 - idx), isFinal) = shown
  <2>1. MakeBals(balances, idx, 1 - idx) = [my |-> my, peer |-> peer]
      BY DEF MakeBals
  <2> HIDE DEF my, peer, browser, backends
  <2> QED BY <1>1, <2>1 DEF NewChannelState
<1>3. IsFcn(browser) /\ \A i \in DOMAIN browser : IsAsset(browser[i])
  <2>1. ASSUME NEW i \in 1 .. n PROVE IsAsset(browser[i])
      BY BrowserAssetShape
  <2>2. DOMAIN browser = 1 .. n /\ IsFcn(browser)
      BY DEF IsFcn
  <2> HIDE DEF browser
  <2> QED BY <2>1, <2>2
<1>4. AreNumbers(my) /\ AreNumbers(peer)
    BY DEF BadIsNoValue, AreNumbers, IsNumber, IsFcn, Parts
<1>5. UnmarshalChannelState(MarshalChannelState(shown)) = shown
  <2>1. IsChannelState(shown)
    <3> HIDE DEF browser, backends, my, peer
    <3> QED BY <1>3, <1>4 DEF IsChannelState
  <2> HIDE DEF shown
  <2> QED BY <2>1, StateTrip
<1>6. MakePerunAssets(browser, backends) = assets
  <2> DEFINE back == [i \in 1 .. n |-> PerunAsset(browser[i], backends[i])]
  <2>1. back = assets
      BY AssetBack
  <2>2. \A i \in 1 .. n : assets[i] # Bad
      BY DEF PerunAssetOK
  <2>3. MakePerunAssets(browser, backends) = AllOrBad(back)
      BY DEF MakePerunAssets
  <2>4. DOMAIN assets = 1 .. n
      OBVIOUS
  <2> QED BY <2>1, <2>2, <2>3, <2>4 DEF AllOrBad
<1>7. ~PerunAssetsPanic(browser, backends)
    BY DEF PerunAssetsPanic
<1>8. ~PerunBalsFail(my, peer, idx, 1 - idx)
    BY DEF PerunBalsFail, Parts
<1>9. MakePerunBals(my, peer, idx, 1 - idx) = balances
  <2>1. {idx, 1 - idx} = Parts
      BY DEF Parts
  <2>2. ASSUME NEW i \in 1 .. n
        PROVE  [k \in {idx, 1 - idx} |-> IF k = 1 - idx THEN peer[i] ELSE my[i]] = balances[i]
    <3>1. \A k \in Parts : (IF k = 1 - idx THEN peer[i] ELSE my[i]) = balances[i][k]
        BY <2>1
    <3> QED BY <2>1, <3>1
  <2> QED BY <2>2 DEF MakePerunBals
<1>10. /\ shown.assets = browser /\ shown.backends = backends
      /\ shown.balance = my /\ shown.peerBalance = peer
    OBVIOUS
<1> HIDE DEF backends, browser, my, peer, shown
<1> QED BY <1>2, <1>5, <1>6, <1>7, <1>8, <1>9, <1>10 DEF backends
=============================================================================
