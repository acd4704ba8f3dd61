-------------------------------- MODULE Config --------------------------------
(***************************************************************************)
(* The chains and assets a server is set up with (internal/websocket/      *)
(* config.go) and the two uses it makes of them: GetChains, GetAssets and  *)
(* GetDecimals tell the browsers what there is, checkAssets decides what a *)
(* channel may hold (internal/client).                                     *)
(*                                                                         *)
(* A file is a sequence of chains with a sequence of assets each.          *)
(***************************************************************************)
EXTENDS Codec

CONSTANTS EthFile, SolFile

IsList(s) == Len(s) \in Nat /\ DOMAIN s = 1 .. Len(s)

(* The rows of a file have the fields of the structs they are read into,   *)
(* and a type of their chain.                                              *)
IsFile(file, fields) ==
    /\ IsList(file)
    /\ \A i \in DOMAIN file :
          /\ Fields(file[i], {"chainID", "assets"}) /\ IsList(file[i].assets)
          /\ \A k \in DOMAIN file[i].assets :
                /\ Fields(file[i].assets[k], fields) /\ file[i].assets[k].type \in {0, 1}
                /\ IsNumber(file[i].assets[k].chainID)
          /\ IsNumber(file[i].chainID)

ASSUME FileAssumption ==
    /\ IsFile(EthFile, {"code", "type", "assetHolder", "chainID"})
    /\ IsFile(SolFile, {"code", "type", "mint", "chainID"})

(* Codes are unique in a file.                                             *)
DuplicateCode(file) ==
    \E i, k \in DOMAIN file : \E a \in DOMAIN file[i].assets, b \in DOMAIN file[k].assets :
        /\ <<i, a>> # <<k, b>>
        /\ file[i].assets[a].code = file[k].assets[b].code

(* An Ethereum asset gets its chain's ID, a Solana asset keeps its own.    *)
ParseEthereumChainsConfig(file) ==
    IF DuplicateCode(file) THEN Bad
    ELSE [i \in DOMAIN file |->
             [file[i] EXCEPT !.assets = [a \in DOMAIN @ |->
                 [@[a] EXCEPT !.chainID = file[i].chainID]]]]

ParseSolanaChainsConfig(file) == IF DuplicateCode(file) THEN Bad ELSE file

(* The entry written last for a key stays.                                 *)
ByKey(s, field) ==
    [k \in {s[i][field] : i \in DOMAIN s} |->
        s[CHOOSE i \in DOMAIN s :
            s[i][field] = k /\ \A n \in DOMAIN s : s[n][field] = k => n <= i]]

ChainMap(chains) ==
    ByKey([i \in DOMAIN chains |-> [chains[i] EXCEPT !.assets = ByKey(@, "code")]],
          "chainID")

AssetMapByCode(chains) ==   \* a slip: the key is the code, as in ChainMap
    [i \in {n - 1 : n \in DOMAIN chains} |->
        [chains[i + 1] EXCEPT !.assets = ByKey(@, "code")]]

AssetMap(chains) ==
    [i \in {n - 1 : n \in DOMAIN chains} |->
        [chains[i + 1] EXCEPT !.assets = ByKey(@, "mint")]]

EthChains == ChainMap(ParseEthereumChainsConfig(EthFile))
SolChains == AssetMap(ParseSolanaChainsConfig(SolFile))

(* main ends when a file does not parse; newPerunClient and checkAssets    *)
(* use the first Solana chain.                                             *)
ASSUME ConfigAssumption ==
    /\ ParseEthereumChainsConfig(EthFile) # Bad
    /\ ParseSolanaChainsConfig(SolFile) # Bad
    /\ 0 \in DOMAIN SolChains

-----------------------------------------------------------------------------
Supported(a) ==
    IF a.assetType = "Solana"
      THEN a.mint \in DOMAIN SolChains[0].assets
      ELSE /\ a.chainID \in DOMAIN EthChains
           /\ \E ca \in Values(EthChains[a.chainID].assets) :
                  ca.assetHolder = a.assetHolder

CheckAssets(assets) == \A i \in DOMAIN assets : Supported(assets[i])

GetChains ==
    Message("GetChainsResponse",
            [chains |-> {c.chainID : c \in Values(EthChains) \cup Values(SolChains)}])

(* The Solana assets are listed once per ID asked for, whichever it is.    *)
GetAssets(chainIDs) ==
    Message("GetAssetsResponse",
        [ethereumAssets |-> UNION {Values(EthChains[id].assets) :
                                       id \in Values(chainIDs) \cap DOMAIN EthChains},
         solanaAssets   |-> IF chainIDs = <<>> THEN {}
                            ELSE Values(SolChains[0].assets)])

(* 9 for every Solana asset; the decimals of an ERC20 token are asked from *)
(* its contract.                                                           *)
GetDecimals(a, token) ==
    IF a.assetType = "Solana" THEN {9}
    ELSE IF ~Supported(a) THEN {Bad}
    ELSE UNION {IF ca.type = 0 THEN {18, Bad} ELSE {token, Bad} :
                   ca \in {c \in Values(EthChains[a.chainID].assets) :
                              c.assetHolder = a.assetHolder}}
=============================================================================
