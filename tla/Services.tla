------------------------------ MODULE Services ------------------------------
(***************************************************************************)
(* The generated services of pb/: what RegisterXxxServer registers with a  *)
(* server, the full method that a client's stub asks for, and how a server *)
(* finds the handler of a call.                                            *)
(***************************************************************************)
EXTENDS FiniteSets

\* A service's description: its name and the methods it has handlers for.
Desc(service, methods) == [service |-> service, methods |-> methods]

UserService == Desc("user.v1.UserService", {"GetUser", "UpdateUser"})
UserServiceV2 == Desc("user.v2.UserService", {"CreateUser"})
OrderService == Desc("order.v1.OrderService", {"CreateOrder"})
PaymentService == Desc("payment.v1.PaymentService", {"ProcessPayment"})
SecureService == Desc("secure.v1.SecureService", {"GetSensitiveData"})
EchoService == Desc("echo.v1.EchoService", {"Ping"})
UserServiceV99 == Desc("user.v99.UserService", {"GetUser"})
SensorService ==
    Desc("sensor.v1.SensorService",
         {"MonitorTemperature", "UploadMetrics", "LiveAlerts"})
Health == Desc("grpc.health.v1.Health", {"Check", "Watch"})
ServerReflection ==
    Desc("grpc.reflection.v1.ServerReflection", {"ServerReflectionInfo"})

\* The stubs: the full method each one invokes.
GetUserV1 == <<"user.v1.UserService", "GetUser">>
CreateUserV2 == <<"user.v2.UserService", "CreateUser">>
CreateOrderV1 == <<"order.v1.OrderService", "CreateOrder">>
ProcessPaymentV1 == <<"payment.v1.PaymentService", "ProcessPayment">>
GetSensitiveDataV1 == <<"secure.v1.SecureService", "GetSensitiveData">>
PingV1 == <<"echo.v1.EchoService", "Ping">>
GetUserV99 == <<"user.v99.UserService", "GetUser">>
MonitorTemperatureV1 == <<"sensor.v1.SensorService", "MonitorTemperature">>
LiveAlertsV1 == <<"sensor.v1.SensorService", "LiveAlerts">>
Check == <<"grpc.health.v1.Health", "Check">>
ServerReflectionInfo ==
    <<"grpc.reflection.v1.ServerReflection", "ServerReflectionInfo">>

\* A server with these services has a handler for the method.
Handles(services, method) ==
    \E desc \in services : method[1] = desc.service /\ method[2] \in desc.methods
=============================================================================
