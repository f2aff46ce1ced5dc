SPECIFICATION MqttSpec
CONSTANTS
  Payloads = {"start", "stop"}
  MqttQueueBound = 2
INVARIANT CommandsSurvived
CHECK_DEADLOCK FALSE
