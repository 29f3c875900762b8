----------------------------- MODULE DiemTypes ------------------------------
(***************************************************************************)
(* The types of cpp/framework/src/diem_types.hpp as terms of module Bcs:   *)
(* the order of the fields and of the cases is what bcsSerialize and       *)
(* bcsDeserialize of each type write and read.  An address or a reference  *)
(* has AddressBytes bytes (16 in the code).                                *)
(***************************************************************************)
EXTENDS Bcs

CONSTANT AddressBytes

U64   == UInt(8)
U128  == UInt(16)               \* serialize_u128 writes the low half first
Bytes == Vec(U8)

AccountAddress        == Struct(<<Array(U8, AddressBytes)>>)
Identifier            == Struct(<<Str>>)
Ed25519PublicKey      == Struct(<<Bytes>>)
Ed25519Signature      == Struct(<<Bytes>>)
MultiEd25519PublicKey == Struct(<<Bytes>>)
MultiEd25519Signature == Struct(<<Bytes>>)
EventKey              == Struct(<<Bytes>>)
HashValue             == Struct(<<Bytes>>)
Module                == Struct(<<Bytes>>)
ChainId               == Struct(<<U8>>)

\* The metadata of a payment.
CoinTradeMetadataV0       == Struct(<<Vec(Str)>>)
CoinTradeMetadata         == Enum(<< <<CoinTradeMetadataV0>> >>)
GeneralMetadataV0         == Struct(<<Opt(Bytes), Opt(Bytes), Opt(U64)>>)
GeneralMetadata           == Enum(<< <<GeneralMetadataV0>> >>)
PaymentMetadataV0         == Struct(<<Array(U8, AddressBytes)>>)
PaymentMetadata           == Enum(<< <<PaymentMetadataV0>> >>)
RefundReason              == Enum(<< <<>>, <<>>, <<>>, <<>>, <<>> >>)
RefundMetadataV0          == Struct(<<U64, RefundReason>>)
RefundMetadata            == Enum(<< <<RefundMetadataV0>> >>)
TravelRuleMetadataV0      == Struct(<<Opt(Str)>>)
TravelRuleMetadata        == Enum(<< <<TravelRuleMetadataV0>> >>)
UnstructuredBytesMetadata == Struct(<<Opt(Bytes)>>)
Metadata ==
  Enum(<< <<>>, <<GeneralMetadata>>, <<TravelRuleMetadata>>,
          <<UnstructuredBytesMetadata>>, <<RefundMetadata>>,
          <<CoinTradeMetadata>>, <<PaymentMetadata>> >>)

\* Types as arguments.  A vector's element is a value_ptr, a struct's
\* parameters are a std::vector of the incomplete type.
StructTag == Struct(<<AccountAddress, Identifier, Identifier, Vec(Ptr("TypeTag"))>>)
TypeTag ==
  Enum(<< <<>>, <<>>, <<>>, <<>>, <<>>, <<>>, <<Ptr("TypeTag")>>, <<StructTag>> >>)

DiemDefinition(name) == TypeTag

\* What a transaction runs.
TransactionArgument ==
  Enum(<< <<U8>>, <<U64>>, <<U128>>, <<AccountAddress>>, <<Bytes>>, <<Bool>> >>)
Script          == Struct(<<Bytes, Vec(TypeTag), Vec(TransactionArgument)>>)
ModuleId        == Struct(<<AccountAddress, Identifier>>)
ScriptFunction  == Struct(<<ModuleId, Identifier, Vec(TypeTag), Vec(Bytes)>>)
ContractEventV0 == Struct(<<EventKey, U64, TypeTag, Bytes>>)
ContractEvent   == Enum(<< <<ContractEventV0>> >>)
AccessPath      == Struct(<<AccountAddress, Bytes>>)
WriteOp         == Enum(<< <<>>, <<Bytes>> >>)
WriteSetMut     == Struct(<<Vec(Tuple(<<AccessPath, WriteOp>>))>>)
WriteSet        == Struct(<<WriteSetMut>>)
ChangeSet       == Struct(<<WriteSet, Vec(ContractEvent)>>)
WriteSetPayload == Enum(<< <<ChangeSet>>, <<AccountAddress, Script>> >>)
TransactionPayload ==
  Enum(<< <<WriteSetPayload>>, <<Script>>, <<Module>>, <<ScriptFunction>> >>)

\* Transactions.
RawTransaction ==
  Struct(<<AccountAddress, U64, TransactionPayload, U64, U64, Str, U64, ChainId>>)
AccountAuthenticator ==
  Enum(<< <<Ed25519PublicKey, Ed25519Signature>>,
          <<MultiEd25519PublicKey, MultiEd25519Signature>> >>)
TransactionAuthenticator ==
  Enum(<< <<Ed25519PublicKey, Ed25519Signature>>,
          <<MultiEd25519PublicKey, MultiEd25519Signature>>,
          <<AccountAuthenticator, Vec(AccountAddress), Vec(AccountAuthenticator)>> >>)
SignedTransaction == Struct(<<RawTransaction, TransactionAuthenticator>>)
BlockMetadata ==
  Struct(<<HashValue, U64, U64, Vec(AccountAddress), AccountAddress>>)
Transaction ==
  Enum(<< <<SignedTransaction>>, <<WriteSetPayload>>, <<BlockMetadata>> >>)
=============================================================================
